---------------------------- MODULE Spec2Model ----------------------------
(***************************************************************************)
(* Model of the proactive scheduler (a365_agent/proactive/scheduler.py),   *)
(* the three-step token exchange (a365_agent/proactive/auth.py), the MCP   *)
(* session service (a365_agent/mcp/service.py) and the task store          *)
(* (a365_agent/storage/pg_storage.py).                                     *)
(***************************************************************************)
EXTENDS Integers, Sequences, FiniteSets, TLC

(***************************************************************************)
(* Bounds of the model.                                                    *)
(***************************************************************************)
MaxRows == 2
MaxLimit == 2
MaxTicks == 1
MaxLifecycleTicks == 2
MaxInterval == 2
MaxStarts == 2

\* program constants
ResultLimit == 2000
LogLimit == 500
\* lengths of backend responses and exception texts
ShortLen == 4
LongLen == 2001

Agents == {"a1", "a2"}
Consumers == {"w1", "w2"}
None == "None"
\* the absent values of record-valued fields
NoToken == [agent |-> None, loop |-> 0, tick |-> 0]
NeverRun == [loop |-> 0, tick |-> 0]
NoText == [origin |-> None, len |-> 0]
\* a task of the listing _execute_task has not been called for
NoRun == [task_id |-> None, task_name |-> None,
          run |-> "none", len |-> 0, update |-> "none", log |-> "none"]
\* last_run_at written before this process started
PrevRun == [loop |-> 0, tick |-> 1]

Range(s) == {s[i] : i \in DOMAIN s}

(***************************************************************************)
(* task_queue: the handoff queue.  A row is identified by its position     *)
(* (rows are created in that order, so position order is created_at order).*)
(* Only the columns an operation reads or writes are kept: target_agent,   *)
(* status, result.                                                          *)
(***************************************************************************)
VARIABLES
    \* ---- scheduler (scheduler.py) ----
    running,          \* ProactiveScheduler._running
    interval,         \* ProactiveScheduler.interval (seconds)
    loop,             \* per start() call: the coroutine's position and locals
    stop_called,      \* history: stop() has been called
    sessions,         \* tool-execution sessions opened and not yet cleaned up
    \* ---- configuration and registry ----
    env,              \* the three tenant-wide settings (process environment)
    agent_registry,   \* agent_user_id -> registry row
    \* ---- task store (pg_storage.py) ----
    scheduled_tasks,  \* Seq of scheduled_tasks rows, in created_at order
    tool_executions,  \* Seq of audit rows (append-only)
    task_queue,     \* Seq of [target_agent, status, result]
    dq,             \* per consumer: the dequeue_tasks statement in flight
    returned,       \* per consumer: ids of the rows its dequeue_tasks calls returned
    \* ---- shared_state (pg_storage.py) ----
    shared_state,   \* key -> row [value, expires_at], or NoRow
    clock,            \* the clock, in seconds
    state_read,     \* the last get_state call: what it saw and what it returned
    state_write,    \* the last set_state call: its arguments and whether it raised
    \* ---- get_storage (pg_storage.py) ----
    instance,       \* the module global _instance
    lock,           \* the module global _lock: holder and waiters
    gs,             \* per caller of get_storage: position and result
    constructions,  \* history: the callers that constructed a PostgresStorage
    pool_calls,     \* history: the callers whose connect() called create_pool
    \* ---- task management (task_tools.py) ----
    task_seq,       \* number of scheduled_tasks rows ever inserted
    mgmt_calls,     \* number of management tool calls made
    tool_call,      \* the last call of a task-management tool: whose tool, what it saw
    once_tasks,     \* history: ids of the tasks created with is_recurrent=False
    \* ---- _render_task_prompt (scheduler.py) ----
    render_in,      \* the template of a call of _render_task_prompt
    render_out,     \* what the call returned or raised
    \* ---- AgentCredentials.validate (auth.py) ----
    validate_row,   \* the registry row of a call of from_agent_row
    validate_out,   \* what validate() returned for the credentials built from it
    \* ---- first contact (contoso_agent.py) ----
    contact         \* per chat turn: the position of its init gate

qvars == <<task_queue, dq, returned>>
kvars == <<shared_state, clock, state_read, state_write>>
gvars == <<instance, lock, gs, constructions, pool_calls>>
mvars == <<task_seq, mgmt_calls>>
rvars == <<render_in, render_out>>
tvars == <<tool_call, once_tasks>>
cvars == <<validate_row, validate_out, contact>>
svars == <<running, interval, loop, stop_called, sessions, env, agent_registry,
           scheduled_tasks, tool_executions>>
vars == <<running, interval, loop, stop_called, sessions, env, agent_registry,
          scheduled_tasks, tool_executions, task_queue, dq, returned,
          shared_state, clock, state_read, state_write,
          instance, lock, gs, constructions, pool_calls, task_seq, mgmt_calls,
          render_in, render_out, tool_call, once_tasks,
          validate_row, validate_out, contact>>

TaskStatuses == {"pending", "in_progress", "completed", "failed"}
\* complete_task(status=...): "Mark a task as completed (or failed)"
CompleteStatuses == {"completed", "failed"}
\* the column default of task_queue.status (the INSERT of enqueue_task sets no status)
DefaultStatus == "pending"
\* result arguments of complete_task: None (the default) or a dict
ResultArgs == {None, "r1"}
\* json.dumps(result or {})
json_dumps_result(result) == IF result = None THEN "{}" ELSE result

DqIdle == [pc |-> "idle", target |-> None, limit |-> 0, snap |-> <<>>, pos |-> 1, locked |-> <<>>]

QInit ==
    /\ task_queue = <<>>
    /\ dq = [c \in Consumers |-> DqIdle]
    /\ returned = [c \in Consumers |-> {}]

\* rows another in-flight statement holds a row lock on
LockedByOther(c, id) == \E d \in Consumers \ {c} : id \in Range(dq[d].locked)
LockedByAny(id) == \E d \in Consumers : id \in Range(dq[d].locked)

\* SELECT id ... WHERE target_agent = $1 AND status = 'pending' ORDER BY created_at ASC
\* evaluated on the statement's snapshot
\* without the condition on target_agent
RECURSIVE PendingIds_AnyTarget(_, _, _)
PendingIds_AnyTarget(q, target, i) ==
    IF i > Len(q) THEN <<>>
    ELSE IF q[i].status = "pending"
         THEN <<i>> \o PendingIds_AnyTarget(q, target, i + 1)
         ELSE PendingIds_AnyTarget(q, target, i + 1)
RECURSIVE PendingIds(_, _, _)
PendingIds(q, target, i) ==
    IF i > Len(q) THEN <<>>
    ELSE IF q[i].target_agent = target /\ q[i].status = "pending"
         THEN <<i>> \o PendingIds(q, target, i + 1)
         ELSE PendingIds(q, target, i + 1)

enqueue_task(target) ==
    /\ Len(task_queue) < MaxRows
    /\ task_queue' = Append(task_queue,
           [target_agent |-> target, status |-> DefaultStatus, result |-> None])
    /\ UNCHANGED <<dq, returned>>

\* dequeue_tasks: the statement starts and takes its snapshot
dequeue_begin(c, target, limit) ==
    /\ dq[c].pc = "idle"
    /\ dq' = [dq EXCEPT ![c] = [pc |-> "scan", target |-> target, limit |-> limit,
                                snap |-> PendingIds(task_queue, target, 1),
                                pos |-> 1, locked |-> <<>>]]
    /\ UNCHANGED <<task_queue, returned>>

\* FOR UPDATE SKIP LOCKED on one candidate row: a row locked by another
\* statement is skipped; a row changed since the snapshot is re-checked
\* against status = 'pending' on its latest version; otherwise it is locked.
\* without the row lock and the re-check
RowClaimable_NoLock(c, id) == TRUE
RowClaimable(c, id) ==
    /\ ~LockedByOther(c, id)
    /\ task_queue[id].status = "pending"

dequeue_lock(c) ==
    /\ dq[c].pc = "scan"
    /\ dq[c].pos <= Len(dq[c].snap)
    /\ Len(dq[c].locked) < dq[c].limit
    /\ LET id == dq[c].snap[dq[c].pos] IN
         dq' = [dq EXCEPT ![c].pos = @ + 1,
                          ![c].locked = IF RowClaimable(c, id) THEN Append(@, id) ELSE @]
    /\ UNCHANGED <<task_queue, returned>>

\* SET status = 'in_progress' on the locked rows, RETURNING *, commit
dequeue_commit(c) ==
    /\ dq[c].pc = "scan"
    /\ \/ dq[c].pos > Len(dq[c].snap)
       \/ Len(dq[c].locked) >= dq[c].limit
    /\ task_queue' = [i \in DOMAIN task_queue |->
                        IF i \in Range(dq[c].locked)
                        THEN [task_queue[i] EXCEPT !.status = "in_progress"]
                        ELSE task_queue[i]]
    /\ returned' = [returned EXCEPT ![c] = @ \cup Range(dq[c].locked)]
    /\ dq' = [dq EXCEPT ![c] = DqIdle]

\* UPDATE task_queue SET status = $2, result = $3 WHERE task_id = $1
\* (waits while a dequeue statement holds the row lock)
complete_task(id, result, status) ==
    /\ id \in DOMAIN task_queue
    /\ ~LockedByAny(id)
    /\ task_queue' = [task_queue EXCEPT ![id].status = status,
                                        ![id].result = json_dumps_result(result)]
    /\ UNCHANGED <<dq, returned>>

QNext ==
    /\ UNCHANGED <<svars, kvars, gvars, mvars, rvars, tvars, cvars>>
    /\ \/ \E t \in Agents : enqueue_task(t)
       \/ \E c \in Consumers, t \in Agents, n \in 1..MaxLimit : dequeue_begin(c, t, n)
       \/ \E c \in Consumers : dequeue_lock(c)
       \/ \E c \in Consumers : dequeue_commit(c)
       \/ \E id \in 1..MaxRows, r \in ResultArgs, s \in CompleteStatuses :
              complete_task(id, r, s)

(***************************************************************************)
(* shared_state: the key-value store with lazy expiry (pg_storage.py)      *)
(***************************************************************************)
\* the clock runs over a minute boundary
StartNow == 57
MaxNow == 61
\* datetime.second is in 0..59
SecondsPerMinute == 60
StateKeys == {"k1", "k2"}
\* ttl_seconds arguments: 0 stands for None (the default) and for 0, which
\* "if ttl_seconds:" treats alike; the others are positive
MaxTtl == 2
TtlArgs == 0..MaxTtl
\* expires_at IS NULL
NoExpiry == -1
\* Python values passed to set_state, and what json.dumps / json.loads make
\* of them: a tuple is written as an array and read back as a list, None is
\* written as null and read back as None
StateValues == {"str", "tuple", None}
json_dumps(value) ==
    CASE value = "str" -> "\"s\""
      [] value = "tuple" -> "[1]"
      [] value = None -> "null"
json_loads(text) ==
    CASE text = "\"s\"" -> "str"
      [] text = "[1]" -> "list"
      [] text = "null" -> None

NoRow == [present |-> FALSE, value |-> None, expires_at |-> NoExpiry]
NoRead == [key |-> None, row |-> NoRow, at |-> 0, result |-> None]

NoWrite == [key |-> None, ttl_seconds |-> 0, raised |-> FALSE]

KInit ==
    /\ shared_state = [k \in StateKeys |-> NoRow]
    /\ clock = StartNow
    /\ state_read = NoRead
    /\ state_write = NoWrite

\* set_state: "if ttl_seconds:" computes the expiry, first with
\* datetime.replace(second=second + ttl_seconds), which raises ValueError
\* outside 0..59, then as now + timedelta; then the upsert
set_state_raises(ttl_seconds) ==
    /\ ttl_seconds # 0
    /\ (clock % SecondsPerMinute) + ttl_seconds \notin 0..(SecondsPerMinute - 1)

ExpiresArg(ttl_seconds) ==
    IF ttl_seconds = 0 THEN NoExpiry ELSE clock + ttl_seconds

set_state(key, value, ttl_seconds) ==
    /\ IF set_state_raises(ttl_seconds)
       THEN UNCHANGED shared_state
       ELSE shared_state' = [shared_state EXCEPT ![key] =
                [present |-> TRUE, value |-> json_dumps(value),
                 expires_at |-> ExpiresArg(ttl_seconds)]]
    /\ state_write' = [key |-> key, ttl_seconds |-> ttl_seconds,
                       raised |-> set_state_raises(ttl_seconds)]
    /\ UNCHANGED <<clock, state_read>>

\* get_state: WHERE key = $1 AND (expires_at IS NULL OR expires_at > NOW())
\* without the expiry condition
RowLive_NoExpiry(row, t) == row.present
RowLive(row, t) ==
    /\ row.present
    /\ (row.expires_at = NoExpiry \/ row.expires_at > t)

get_state_result(key) ==
    IF RowLive(shared_state[key], clock) THEN json_loads(shared_state[key].value) ELSE None

get_state(key) ==
    /\ state_read' = [key |-> key, row |-> shared_state[key], at |-> clock,
                      result |-> get_state_result(key)]
    /\ UNCHANGED <<shared_state, clock, state_write>>

\* delete_state: DELETE ... WHERE key = $1
delete_state(key) ==
    /\ shared_state[key].present
    /\ shared_state' = [shared_state EXCEPT ![key] = NoRow]
    /\ UNCHANGED <<clock, state_read, state_write>>

\* a second passes
clock_advances ==
    /\ clock < MaxNow
    /\ clock' = clock + 1
    /\ UNCHANGED <<shared_state, state_read, state_write>>

KNext ==
    /\ UNCHANGED <<svars, qvars, gvars, mvars, rvars, tvars, cvars>>
    /\ \/ \E k \in StateKeys, v \in StateValues, t \in TtlArgs : set_state(k, v, t)
       \/ \E k \in StateKeys : get_state(k)
       \/ \E k \in StateKeys : delete_state(k)
       \/ clock_advances

(***************************************************************************)
(* get_storage: the singleton accessor (pg_storage.py).  A caller runs     *)
(* without interruption up to its next await.                              *)
(***************************************************************************)
StorageCallers == {"c1", "c2", "c3"}
MaxGetCalls == 2
NoInstance == [id |-> 0, pool |-> "none"]
GsIdle == [pc |-> "idle", calls |-> 0, got |-> NoInstance]

GInit ==
    /\ instance = NoInstance
    /\ lock = [holder |-> None, waiters |-> <<>>]
    /\ gs = [c \in StorageCallers |-> GsIdle]
    /\ constructions = <<>>
    /\ pool_calls = <<>>

\* "if _instance is None"
InstanceIsNone_Always == TRUE
InstanceIsNone == instance = NoInstance

\* with the lock held (lk is the lock as the caller took it): the second
\* "if _instance is None", then "_instance = PostgresStorage()" and
\* "await _instance.connect()", whose "if self._pool is not None: return" is
\* false for the new object; otherwise the lock is released and _instance
\* returned
UnderLock(c, g, lk) ==
    IF InstanceIsNone
    THEN /\ instance' = [id |-> Len(constructions) + 1, pool |-> "none"]
         /\ constructions' = Append(constructions, c)
         /\ pool_calls' = Append(pool_calls, c)
         /\ gs' = [g EXCEPT ![c].pc = "await_create_pool"]
         /\ lock' = [lk EXCEPT !.holder = c]
    ELSE /\ gs' = [g EXCEPT ![c].pc = "returned", ![c].got = instance]
         /\ lock' = [lk EXCEPT !.holder = None]
         /\ UNCHANGED <<instance, constructions, pool_calls>>

\* a call of get_storage, up to its first await
get_storage(c) ==
    /\ gs[c].pc \in {"idle", "returned", "raised"}
    /\ gs[c].calls < MaxGetCalls
    /\ LET g == [gs EXCEPT ![c].calls = @ + 1] IN
         IF ~InstanceIsNone
         THEN /\ gs' = [g EXCEPT ![c].pc = "returned", ![c].got = instance]
              /\ UNCHANGED <<instance, lock, constructions, pool_calls>>
         ELSE IF lock.holder = None /\ lock.waiters = <<>>
         THEN UnderLock(c, g, lock)
         ELSE /\ gs' = [g EXCEPT ![c].pc = "await_lock"]
              /\ lock' = [lock EXCEPT !.waiters = Append(@, c)]
              /\ UNCHANGED <<instance, constructions, pool_calls>>

\* the released lock is handed to its first waiter
lock_acquired(c) ==
    /\ gs[c].pc = "await_lock"
    /\ lock.holder = None
    /\ lock.waiters # <<>>
    /\ Head(lock.waiters) = c
    /\ UnderLock(c, gs, [lock EXCEPT !.waiters = Tail(@)])

\* asyncpg.create_pool returns the pool or raises; connect re-raises, the
\* lock is released, and get_storage returns _instance or lets the error out
create_pool_returns(c, ok) ==
    /\ gs[c].pc = "await_create_pool"
    /\ lock' = [lock EXCEPT !.holder = None]
    /\ IF ok
       THEN /\ instance' = [instance EXCEPT !.pool = "created"]
            /\ gs' = [gs EXCEPT ![c].pc = "returned",
                                ![c].got = [instance EXCEPT !.pool = "created"]]
       ELSE /\ UNCHANGED instance
            /\ gs' = [gs EXCEPT ![c].pc = "raised"]
    /\ UNCHANGED <<constructions, pool_calls>>

\* _instance is assigned before the lock holder's first await, so a caller
\* that finds _instance None never finds the lock held: no caller waits, and
\* lock_acquired has no state to act in
GNext ==
    /\ UNCHANGED <<svars, qvars, kvars, mvars, rvars, tvars, cvars>>
    /\ \/ \E c \in StorageCallers : get_storage(c)
       \/ \E c \in StorageCallers, ok \in BOOLEAN : create_pool_returns(c, ok)

(***************************************************************************)
(* Credentials (proactive/auth.py)                                         *)
(***************************************************************************)
\* AgentCredentials.from_agent_row: identity from the registry row, the
\* three tenant-wide settings from the environment
from_agent_row(agent_row) ==
    [agent_user_id            |-> agent_row.agent_user_id,
     agent_identity_client_id |-> agent_row.agent_identity_client_id,
     agent_user_object_id     |-> agent_row.agent_user_object_id,
     blueprint_client_id      |-> env.client_id,
     blueprint_client_secret  |-> env.client_secret,
     tenant_id                |-> env.tenant_id]

\* AgentCredentials.validate: the names of the missing fields
validate(creds) ==
    {f \in {"blueprint_client_id", "blueprint_client_secret", "tenant_id",
            "agent_identity_client_id", "agent_user_object_id"} : creds[f] = ""}

\* a call of from_agent_row and validate on its own
NoValidate == [called |-> FALSE, missing |-> {}]
\* get_agent: "return None"
NoAgent == [agent_user_id |-> None]
\* the chat turns that run the init gate
NoContact == [pc |-> "idle", agent_upn |-> None, my_entry |-> NoAgent, result |-> None]
ContactFlows == {"f1", "f2"}
CInit ==
    /\ validate_row = [agent_user_id |-> "a1", agent_identity_client_id |-> "cid",
                       agent_user_object_id |-> "oid"]
    /\ validate_out = NoValidate
    /\ contact = [f \in ContactFlows |-> NoContact]

validate_call ==
    /\ validate_out = NoValidate
    /\ validate_out' = [called |-> TRUE, missing |-> validate(from_agent_row(validate_row))]
    /\ UNCHANGED <<validate_row, contact>>

\* _process_agent: "if missing: ... return"
process_agent_skips_NoCheck(creds) == FALSE
process_agent_skips(creds) == validate(creds) # {}

\* acquire_mcp_token: "if missing: raise RuntimeError"
acquire_mcp_token_rejects(creds) == validate(creds) # {}

\* the three token requests: "if resp.status != 200: raise", then result["access_token"]
\* (a 200 body without access_token raises KeyError on the same path as a non-200)
TokenResponses == {[status |-> 200], [status |-> 400]}
TokenStepOk_NoRaise(resp) == TRUE
TokenStepOk(resp) == resp.status = 200

(***************************************************************************)
(* Task store queries used by the tick (pg_storage.py)                     *)
(***************************************************************************)
RECURSIVE SelectSeq2(_, _, _)
SelectSeq2(q, Test(_), i) ==
    IF i > Len(q) THEN <<>>
    ELSE IF Test(q[i]) THEN <<q[i]>> \o SelectSeq2(q, Test, i + 1)
         ELSE SelectSeq2(q, Test, i + 1)

\* the query without the condition on is_instructions_complete
EligibleIds_AnyFlag ==
    {a \in DOMAIN agent_registry :
        \E i \in DOMAIN scheduled_tasks :
            scheduled_tasks[i].agent_user_id = a /\ scheduled_tasks[i].is_enabled}
\* get_all_agents_with_tasks: registry rows with the instructions-complete
\* flag and at least one enabled task (no ORDER BY: any order)
EligibleIds ==
    {a \in DOMAIN agent_registry :
        /\ agent_registry[a].is_instructions_complete
        /\ \E i \in DOMAIN scheduled_tasks :
              scheduled_tasks[i].agent_user_id = a /\ scheduled_tasks[i].is_enabled}
get_all_agents_with_tasks ==
    {[i \in 1..Cardinality(EligibleIds) |-> agent_registry[f[i]]] :
        f \in {g \in [1..Cardinality(EligibleIds) -> EligibleIds] :
                  \A i, j \in DOMAIN g : i # j => g[i] # g[j]}}

\* without the condition on is_enabled
get_scheduled_tasks_All(agent_user_id) ==
    LET Mine(t) == t.agent_user_id = agent_user_id
    IN SelectSeq2(scheduled_tasks, Mine, 1)
\* get_scheduled_tasks: the agent's enabled tasks, ORDER BY created_at ASC
get_scheduled_tasks(agent_user_id) ==
    LET Mine(t) == t.agent_user_id = agent_user_id /\ t.is_enabled
    IN SelectSeq2(scheduled_tasks, Mine, 1)

\* ---- _render_task_prompt ----
\* A template is a sequence of tokens: literal text, a replacement field
\* ("{unknown}" names no argument of the call, "{}" is a positional field),
\* the escape "{{", and "{ ", a brace that opens no field.
PromptTokens ==
    {"text", "{manager_email}", "{target_email}", "{agent_upn}", "{timestamp}",
     "{unknown}", "{}", "{ ", "{{"}
MaxTemplateLen == 2
Templates == UNION {[1..n -> PromptTokens] : n \in 0..MaxTemplateLen}

PlainPrompt == <<"text", "{manager_email}">>
UnknownKeyPrompt == <<"text", "{unknown}">>
MalformedPrompt == <<"text", "{ ">>
PromptKinds == {PlainPrompt, UnknownKeyPrompt, MalformedPrompt}

\* what str.format raises when it reaches the token
FormatError(token) ==
    CASE token = "{unknown}" -> "KeyError"
      [] token = "{}"        -> "IndexError"
      [] token = "{ "        -> "ValueError"
      [] OTHER               -> "none"

\* what str.format writes for the token
FormatPiece(token, manager_email, agent_upn) ==
    CASE token = "{manager_email}" -> manager_email
      [] token = "{target_email}"  -> manager_email
      [] token = "{agent_upn}"     -> agent_upn
      [] token = "{timestamp}"     -> "now"
      [] token = "{{"              -> "{"
      [] OTHER                     -> token

\* task_prompt.format(manager_email=, target_email=, agent_upn=, timestamp=):
\* the template is read left to right and the first error is raised
RECURSIVE format(_, _, _)
format(task_prompt, manager_email, agent_upn) ==
    IF task_prompt = <<>>
    THEN [raised |-> "none", text |-> <<>>]
    ELSE IF FormatError(Head(task_prompt)) # "none"
    THEN [raised |-> FormatError(Head(task_prompt)), text |-> <<>>]
    ELSE LET rest == format(Tail(task_prompt), manager_email, agent_upn)
         IN IF rest.raised # "none"
            THEN rest
            ELSE [raised |-> "none",
                  text |-> <<FormatPiece(Head(task_prompt), manager_email, agent_upn)>>
                              \o rest.text]

\* _render_task_prompt: KeyError is caught and the raw template returned; any
\* other error of format() escapes
render_task_prompt(task_prompt, manager_email, agent_upn) ==
    LET r == format(task_prompt, manager_email, agent_upn)
    IN IF r.raised = "KeyError"
       THEN [called |-> TRUE, raises |-> FALSE, text |-> task_prompt]
       ELSE [called |-> TRUE, raises |-> r.raised # "none", text |-> r.text]

\* a call of _render_task_prompt on its own
NoRender == [called |-> FALSE, raises |-> FALSE, text |-> <<>>]
RInit ==
    /\ render_in = <<>>
    /\ render_out = NoRender

render(manager_email, agent_upn) ==
    /\ render_out = NoRender
    /\ render_out' = render_task_prompt(render_in, manager_email, agent_upn)
    /\ UNCHANGED render_in

Min(a, b) == IF a < b THEN a ELSE b
\* text[:n] on a text known by its origin and length
\* the slice left out
Truncate_Identity(text, n) == text
Truncate(text, n) == [text EXCEPT !.len = Min(@, n)]

(***************************************************************************)
(* The scheduler coroutine (proactive/scheduler.py).  loop[l] is one call  *)
(* of start(); its pc names the await it is suspended at, and each action  *)
(* runs the code from that await to the next one.                          *)
(***************************************************************************)
LoopInit ==
    [pc |-> "init", noop |-> FALSE, ticks |-> 0, tick_result |-> "none",
     prev_result |-> "none",
     agents |-> <<>>, idx |-> 0, outcome |-> <<>>, tok |-> <<>>, tok_req |-> <<>>,
     tokens |-> <<>>, tasks |-> <<>>, tidx |-> 0, status |-> None, response |-> NoText,
     ran |-> <<>>,
     slept |-> 0, stopped_in_sleep |-> FALSE, slices_after_stop |-> 0,
     stopped_in_tick |-> 0]

\* _tick is entered: "await get_storage()"
StartTick(s) ==
    [s EXCEPT !.pc = "await_get_storage", !.ticks = @ + 1, !.tick_result = "running",
              !.prev_result = s.tick_result,
              !.agents = <<>>, !.idx = 0, !.outcome = <<>>, !.tok = <<>>,
              !.tok_req = <<>>, !.tokens = <<>>, !.tasks = <<>>, !.tidx = 0,
              !.status = None, !.response = NoText, !.ran = <<>>, !.slept = 0]

\* "while self._running:"
LoopTop(s) == IF running THEN StartTick(s) ELSE [s EXCEPT !.pc = "returned"]

\* "for _ in range(self.interval): if not self._running: break; await asyncio.sleep(1)"
EnterSleep(s) ==
    IF interval >= 1 /\ running
    THEN [s EXCEPT !.pc = "await_sleep", !.slept = 0]
    ELSE LoopTop(s)

\* start: "except Exception: logger.exception(...)" around "await self._tick()"
TickFailed_NoCatch(s) == [s EXCEPT !.tick_result = "failed", !.pc = "crashed"]
TickFailed(s) == EnterSleep([s EXCEPT !.tick_result = "failed"])

\* _tick returns
EndTick(s, result) == EnterSleep([s EXCEPT !.tick_result = result])

\* _tick: "except Exception: logger.exception(...)" around "await self._process_agent()"
\* escapes: the exception leaves _tick
AfterAgentException_Escapes(s) == TickFailed([s EXCEPT !.outcome[s.idx] = "failed"])

RECURSIVE BeginAgent(_, _)
RECURSIVE AfterAgentException(_)
AfterAgentException(s) ==
    BeginAgent([s EXCEPT !.outcome[s.idx] = "failed"], s.idx + 1)

\* _tick's for loop reaches agent i: _process_agent up to its first await
BeginAgent(s, i) ==
    IF i > Len(s.agents)
    THEN EndTick([s EXCEPT !.idx = i], "ok")
    ELSE LET creds == from_agent_row(s.agents[i])
             s1 == [s EXCEPT !.idx = i, !.outcome[i] = "running"]
         IN IF process_agent_skips(creds)
            THEN BeginAgent([s1 EXCEPT !.outcome[i] = "skipped"], i + 1)
            ELSE IF acquire_mcp_token_rejects(creds)
            THEN AfterAgentException(s1)
            ELSE [s1 EXCEPT !.pc = "await_t1", !.tok_req[i] = 1]

\* _process_agent's "for task_row in tasks": _execute_task up to "await agent.run"
ExecTaskBegin(s, k) ==
    IF k > Len(s.tasks)
    THEN [s EXCEPT !.pc = "await_cleanup", !.tidx = k]
    ELSE IF render_task_prompt(s.tasks[k].task_prompt,
                               s.agents[s.idx].manager_email,
                               s.agents[s.idx].agent_user_id).raises
    THEN AfterAgentException([s EXCEPT !.tidx = k,
                                       !.ran[s.idx][k].run = "render_error"])
    ELSE [s EXCEPT !.pc = "await_run", !.tidx = k, !.status = "success",
                   !.response = NoText]

SetLoop(l, new) == loop' = [loop EXCEPT ![l] = new]

\* _process_agent: the local mcp_token, passed as bearer_token
BearerToken_FirstAgent(s) == s.tokens[1]
BearerToken(s) == s.tokens[s.idx]

Session(l) ==
    [loop |-> l, tick |-> loop[l].ticks,
     agent |-> loop[l].agents[loop[l].idx].agent_user_id,
     token |-> BearerToken(loop[l])]

\* ---- start / stop ----
\* start without "if self._running: return"
start_NoGuard(l) ==
    /\ loop[l].pc = "init"
    /\ running' = TRUE
    /\ SetLoop(l, StartTick(loop[l]))
    /\ UNCHANGED <<interval, stop_called, sessions, env, agent_registry,
                   scheduled_tasks, tool_executions>>
start(l) ==
    /\ loop[l].pc = "init"
    /\ IF running
       THEN /\ SetLoop(l, [loop[l] EXCEPT !.pc = "returned", !.noop = TRUE])
            /\ UNCHANGED running
       ELSE /\ running' = TRUE
            /\ SetLoop(l, StartTick(loop[l]))
    /\ UNCHANGED <<interval, stop_called, sessions, env, agent_registry,
                   scheduled_tasks, tool_executions>>

\* stop: self._task is never assigned, so only the flag is cleared
stop ==
    /\ running' = FALSE
    /\ stop_called' = TRUE
    /\ loop' = [l \in DOMAIN loop |->
                  IF loop[l].pc = "await_sleep"
                  THEN [loop[l] EXCEPT !.stopped_in_sleep = TRUE]
                  ELSE IF loop[l].tick_result = "running"
                  THEN [loop[l] EXCEPT !.stopped_in_tick = loop[l].ticks]
                  ELSE loop[l]]
    /\ UNCHANGED <<interval, sessions, env, agent_registry, scheduled_tasks,
                   tool_executions>>

\* the task running start() is cancelled: the await it is suspended at raises
\* CancelledError, which "except Exception" does not catch, and start() exits
\* without touching _running
cancel(l) ==
    /\ loop[l].pc \in {"await_get_storage", "await_query", "await_sleep"}
    /\ SetLoop(l, [loop[l] EXCEPT !.pc = "cancelled"])
    /\ UNCHANGED <<running, interval, stop_called, sessions, env, agent_registry,
                   scheduled_tasks, tool_executions>>

sleep_returns(l) ==
    /\ loop[l].pc = "await_sleep"
    /\ LET s == [loop[l] EXCEPT !.slept = @ + 1,
                               !.slices_after_stop =
                                   IF loop[l].stopped_in_sleep THEN Min(@ + 1, 2) ELSE @]
       IN SetLoop(l, IF s.slept < interval /\ running THEN s ELSE LoopTop(s))
    /\ UNCHANGED <<running, interval, stop_called, sessions, env, agent_registry,
                   scheduled_tasks, tool_executions>>

\* ---- _tick ----
get_storage_returns(l, ok) ==
    /\ loop[l].pc = "await_get_storage"
    /\ SetLoop(l, IF ok THEN [loop[l] EXCEPT !.pc = "await_query"]
                        ELSE TickFailed(loop[l]))
    /\ UNCHANGED <<running, interval, stop_called, sessions, env, agent_registry,
                   scheduled_tasks, tool_executions>>

query_returns(l) ==
    /\ loop[l].pc = "await_query"
    /\ \/ SetLoop(l, TickFailed(loop[l]))
       \/ \E rows \in get_all_agents_with_tasks :
            LET n == Len(rows)
                s == [loop[l] EXCEPT !.agents = rows,
                                     !.outcome = [i \in 1..n |-> "none"],
                                     !.tok = [i \in 1..n |-> <<>>],
                                     !.tok_req = [i \in 1..n |-> 0],
                                     !.tokens = [i \in 1..n |-> NoToken],
                                     !.ran = [i \in 1..n |-> <<>>]]
            IN SetLoop(l, IF n = 0 THEN EndTick(s, "empty") ELSE BeginAgent(s, 1))
    /\ UNCHANGED <<running, interval, stop_called, sessions, env, agent_registry,
                   scheduled_tasks, tool_executions>>

\* ---- _agent_user_impersonation_flow ----
\* a token kept from the first tick
access_token_Cached(l, s) ==
    [agent |-> s.agents[s.idx].agent_user_id, loop |-> l, tick |-> 1]
\* result["access_token"] of the third request: a token issued to the agent
\* by this request
access_token(l, s) ==
    [agent |-> s.agents[s.idx].agent_user_id, loop |-> l, tick |-> s.ticks]

TokenStep(l, k, resp) ==
    LET s == loop[l]
        i == s.idx
        s1 == [s EXCEPT !.tok[i] = Append(@, resp)]
    IN IF ~TokenStepOk(resp) THEN AfterAgentException(s1)
       ELSE IF k = 1 THEN [s1 EXCEPT !.pc = "await_t2", !.tok_req[i] = 2]
       ELSE IF k = 2 THEN [s1 EXCEPT !.pc = "await_t3", !.tok_req[i] = 3]
       ELSE [s1 EXCEPT !.pc = "await_get_tasks", !.tokens[i] = access_token(l, s)]

get_t1(l, resp) ==
    /\ loop[l].pc = "await_t1"
    /\ SetLoop(l, TokenStep(l, 1, resp))
    /\ UNCHANGED <<running, interval, stop_called, sessions, env, agent_registry,
                   scheduled_tasks, tool_executions>>

get_t2(l, resp) ==
    /\ loop[l].pc = "await_t2"
    /\ SetLoop(l, TokenStep(l, 2, resp))
    /\ UNCHANGED <<running, interval, stop_called, sessions, env, agent_registry,
                   scheduled_tasks, tool_executions>>

get_mcp_token(l, resp) ==
    /\ loop[l].pc = "await_t3"
    /\ SetLoop(l, TokenStep(l, 3, resp))
    /\ UNCHANGED <<running, interval, stop_called, sessions, env, agent_registry,
                   scheduled_tasks, tool_executions>>

\* ---- _process_agent after the token ----
get_scheduled_tasks_returns(l, ok) ==
    /\ loop[l].pc = "await_get_tasks"
    /\ LET s == loop[l]
           tasks == get_scheduled_tasks(s.agents[s.idx].agent_user_id)
       IN SetLoop(l,
            IF ~ok THEN AfterAgentException(s)
            ELSE IF tasks = <<>>
            THEN BeginAgent([s EXCEPT !.outcome[s.idx] = "no_tasks"], s.idx + 1)
            ELSE [s EXCEPT !.tasks = tasks, !.pc = "await_mcp_init",
                           !.ran[s.idx] = [k \in DOMAIN tasks |->
                               [NoRun EXCEPT !.task_id = tasks[k].task_id,
                                             !.task_name = tasks[k].task_name]]])
    /\ UNCHANGED <<running, interval, stop_called, sessions, env, agent_registry,
                   scheduled_tasks, tool_executions>>

\* initialize_with_bearer_token returns the agent, returns None, or raises
mcp_init_returns(l) ==
    /\ loop[l].pc = "await_mcp_init"
    /\ \/ /\ SetLoop(l, ExecTaskBegin(loop[l], 1))
          /\ sessions' = sessions \cup {Session(l)}
       \/ /\ SetLoop(l, AfterAgentException(loop[l]))
          /\ sessions' = sessions \cup {Session(l)}
       \/ /\ SetLoop(l, AfterAgentException(loop[l]))
          /\ UNCHANGED sessions
    /\ UNCHANGED <<running, interval, stop_called, env, agent_registry,
                   scheduled_tasks, tool_executions>>

\* ---- _execute_task ----
\* agent.run returns a text or raises; the response or exception text is
\* shorter or longer than the stored limit
RunOutcomes == [raised : BOOLEAN, len : {ShortLen, LongLen}]

run_returns(l, out) ==
    /\ loop[l].pc = "await_run"
    /\ SetLoop(l, [loop[l] EXCEPT
                     !.pc = "await_update",
                     !.status = IF out.raised THEN "error" ELSE "success",
                     !.response = [origin |-> IF out.raised THEN "exception" ELSE "backend",
                                   len |-> out.len],
                     !.ran[loop[l].idx][loop[l].tidx] =
                         [@ EXCEPT !.run = IF out.raised THEN "error" ELSE "success",
                                   !.len = out.len]])
    /\ UNCHANGED <<running, interval, stop_called, sessions, env, agent_registry,
                   scheduled_tasks, tool_executions>>

\* update_scheduled_task_result: SET last_run_at = NOW(), last_status, last_result
\* a write that keeps the result of a row that already has one
update_scheduled_task_result_KeepOld(rows, task_id, status, result_text, now) ==
    [i \in DOMAIN rows |->
        IF rows[i].task_id = task_id /\ rows[i].last_status = None
        THEN [rows[i] EXCEPT !.last_run_at = now, !.last_status = status,
                             !.last_result = Truncate(result_text, ResultLimit)]
        ELSE rows[i]]
update_scheduled_task_result(rows, task_id, status, result_text, now) ==
    [i \in DOMAIN rows |->
        IF rows[i].task_id = task_id
        THEN [rows[i] EXCEPT !.last_run_at = now, !.last_status = status,
                             !.last_result = Truncate(result_text, ResultLimit)]
        ELSE rows[i]]

update_returns(l, ok) ==
    /\ loop[l].pc = "await_update"
    /\ LET s == loop[l] IN
         IF ok
         THEN /\ scheduled_tasks' = update_scheduled_task_result(scheduled_tasks,
                     s.tasks[s.tidx].task_id, s.status,
                     Truncate(s.response, ResultLimit), [loop |-> l, tick |-> s.ticks])
              /\ SetLoop(l, [s EXCEPT !.pc = "await_log",
                                       !.ran[s.idx][s.tidx].update = "ok"])
         ELSE /\ UNCHANGED scheduled_tasks
              /\ SetLoop(l, ExecTaskBegin([s EXCEPT !.ran[s.idx][s.tidx].update = "failed"],
                                          s.tidx + 1))
    /\ UNCHANGED <<running, interval, stop_called, sessions, env, agent_registry,
                   tool_executions>>

log_returns(l, ok) ==
    /\ loop[l].pc = "await_log"
    /\ LET s == loop[l] IN
         /\ tool_executions' =
              IF ok
              THEN Append(tool_executions,
                     [agent_id |-> s.agents[s.idx].agent_user_id,
                      tool_name |-> <<"cron:", s.tasks[s.tidx].task_name>>,
                      conversation_id |-> "proactive-cron",
                      tool_output |-> Truncate(s.response, LogLimit),
                      status |-> s.status,
                      created_at |-> [loop |-> l, tick |-> s.ticks]])
              ELSE tool_executions
         /\ SetLoop(l, ExecTaskBegin(
                [s EXCEPT !.ran[s.idx][s.tidx].log = IF ok THEN "ok" ELSE "failed"],
                s.tidx + 1))
    /\ UNCHANGED <<running, interval, stop_called, sessions, env, agent_registry,
                   scheduled_tasks>>

\* MCPService.cleanup: an error of the tool service is caught; the service is reset
cleanup_returns(l) ==
    /\ loop[l].pc = "await_cleanup"
    /\ sessions' = sessions \ {Session(l)}
    /\ SetLoop(l, BeginAgent([loop[l] EXCEPT !.outcome[loop[l].idx] = "done"],
                             loop[l].idx + 1))
    /\ UNCHANGED <<running, interval, stop_called, env, agent_registry,
                   scheduled_tasks, tool_executions>>

TickStep(l) ==
    \/ \E ok \in BOOLEAN : get_storage_returns(l, ok)
    \/ query_returns(l)
    \/ sleep_returns(l)

AgentStep(l) ==
    \/ \E resp \in TokenResponses : get_t1(l, resp)
    \/ \E resp \in TokenResponses : get_t2(l, resp)
    \/ \E resp \in TokenResponses : get_mcp_token(l, resp)
    \/ \E ok \in BOOLEAN : get_scheduled_tasks_returns(l, ok)
    \/ mcp_init_returns(l)
    \/ \E out \in RunOutcomes : run_returns(l, out)
    \/ \E ok \in BOOLEAN : update_returns(l, ok)
    \/ \E ok \in BOOLEAN : log_returns(l, ok)
    \/ cleanup_returns(l)

(***************************************************************************)
(* Initial states                                                          *)
(***************************************************************************)
EnvOk == [client_id |-> "bp", client_secret |-> "secret", tenant_id |-> "tenant"]
EnvConfigs == {EnvOk, [EnvOk EXCEPT !.tenant_id = ""]}
IdentityConfigs == {<<"cid", "oid">>, <<"", "oid">>, <<"cid", "">>}
RegistryRow(a, ident) ==
    [agent_user_id |-> a, agent_identity_client_id |-> ident[1],
     agent_user_object_id |-> ident[2], manager_email |-> "m",
     instructions |-> "text", is_instructions_complete |-> TRUE]

\* _init_gate_via_db: the gate passes when the flag is set or the row has
\* instructions text
init_gate_passes(my_entry) ==
    my_entry.is_instructions_complete \/ my_entry.instructions # ""

\* ---- agent_registry: get_agent, create_agent, update_agent ----
get_agent(agent_user_id) ==
    IF agent_user_id \in DOMAIN agent_registry THEN agent_registry[agent_user_id]
    ELSE NoAgent

\* INSERT ... ON CONFLICT (agent_user_id) DO UPDATE SET instructions,
\* is_instructions_complete, manager_email, manager_name
create_agent(agent_user_id, manager_email, instructions, is_instructions_complete) ==
    agent_registry' =
        [a \in DOMAIN agent_registry \cup {agent_user_id} |->
            IF a # agent_user_id THEN agent_registry[a]
            ELSE IF a \in DOMAIN agent_registry
            THEN [agent_registry[a] EXCEPT
                     !.instructions = instructions,
                     !.is_instructions_complete = is_instructions_complete,
                     !.manager_email = manager_email]
            ELSE [agent_user_id |-> a, agent_identity_client_id |-> "",
                  agent_user_object_id |-> "", manager_email |-> manager_email,
                  instructions |-> instructions,
                  is_instructions_complete |-> is_instructions_complete]]

\* UPDATE agent_registry SET ... WHERE agent_user_id matches: no row, no change
update_agent(agent_user_id, fields) ==
    /\ agent_user_id \in DOMAIN agent_registry
    /\ agent_registry' =
          [agent_registry EXCEPT ![agent_user_id] =
              [k \in DOMAIN agent_registry[agent_user_id] |->
                  IF k \in DOMAIN fields THEN fields[k]
                  ELSE agent_registry[agent_user_id][k]]]
    /\ UNCHANGED cvars

\* ---- the init gate of a chat turn (_init_gate_via_db) ----
SetContact(f, new) ==
    /\ contact' = [contact EXCEPT ![f] = new]
    /\ UNCHANGED <<validate_row, validate_out>>

\* up to "await storage.get_agent(agent_upn)"
init_gate_via_db(f, agent_upn) ==
    /\ contact[f].pc = "idle"
    /\ SetContact(f, [contact[f] EXCEPT !.pc = "await_get_agent", !.agent_upn = agent_upn])
    /\ UNCHANGED agent_registry

\* get_agent returns; up to "await self._resolve_manager_email(graph_token)"
get_agent_returns(f) ==
    /\ contact[f].pc = "await_get_agent"
    /\ SetContact(f, [contact[f] EXCEPT !.pc = "await_manager_email",
                                        !.my_entry = get_agent(contact[f].agent_upn)])
    /\ UNCHANGED agent_registry

\* the manager's address is known: the found row is evaluated, or
\* _init_gate_create_via_db starts and awaits the manager's display name
manager_email_returns(f) ==
    /\ contact[f].pc = "await_manager_email"
    /\ SetContact(f,
          IF contact[f].my_entry # NoAgent
          THEN [contact[f] EXCEPT
                   !.pc = "done",
                   !.result = IF init_gate_passes(contact[f].my_entry)
                              THEN "passed" ELSE "pending"]
          ELSE [contact[f] EXCEPT !.pc = "await_manager_name"])
    /\ UNCHANGED agent_registry

\* up to "await storage.create_agent(...)"
manager_name_returns(f) ==
    /\ contact[f].pc = "await_manager_name"
    /\ SetContact(f, [contact[f] EXCEPT !.pc = "await_create_agent"])
    /\ UNCHANGED agent_registry

\* create_agent(agent_upn, manager_email=..., manager_name=...,
\* is_instructions_complete=False) runs, instructions defaulting to ""
create_agent_returns(f) ==
    /\ contact[f].pc = "await_create_agent"
    /\ create_agent(contact[f].agent_upn, "m", "", FALSE)
    /\ SetContact(f, [contact[f] EXCEPT !.pc = "done", !.result = "created"])
TaskRow(id, a, prompt) ==
    [task_id |-> id, agent_user_id |-> a, task_name |-> id, task_prompt |-> prompt,
     is_enabled |-> TRUE, last_run_at |-> NeverRun, last_status |-> None,
     last_result |-> NoText]

(***************************************************************************)
(* Task management (tools/task_tools.py over pg_storage.py)                *)
(***************************************************************************)
MaxTaskSeq == 3
MaxMgmtCalls == 2
\* task_id values the database generates, in insertion order
TaskIds == <<"t1", "t2", "t3", "t4", "t5", "t6">>
TaskIdArgs == {"t1", "t2", "t3"}
TaskNameArgs == {"n1"}
\* keyword arguments of update_scheduled_task_fields: the three the update
\* tool can pass, and one the function does not allow
FieldArgs ==
    {[task_name |-> "renamed"], [task_prompt |-> UnknownKeyPrompt],
     [is_enabled |-> FALSE], [is_enabled |-> TRUE], [last_status |-> "success"]}

MInit ==
    /\ task_seq = Len(scheduled_tasks)
    /\ mgmt_calls = 0

MgmtFrame ==
    UNCHANGED <<running, interval, loop, stop_called, sessions, env, agent_registry,
                tool_executions>>

\* create_scheduled_task: INSERT (agent_user_id, task_name, task_prompt,
\* is_enabled = TRUE); every other column takes its default
create_scheduled_task(a, task_name, task_prompt) ==
    /\ mgmt_calls < MaxMgmtCalls
    /\ task_seq < MaxTaskSeq
    /\ scheduled_tasks' = Append(scheduled_tasks,
          [TaskRow(TaskIds[task_seq + 1], a, task_prompt) EXCEPT !.task_name = task_name])
    /\ task_seq' = task_seq + 1
    /\ mgmt_calls' = mgmt_calls + 1
    /\ MgmtFrame

\* update_scheduled_task_fields: "allowed = {...}; updates = {k: v ... if k in allowed}"
AllowedFields_All == {"task_name", "task_prompt", "is_enabled", "last_status"}
AllowedFields == {"task_name", "task_prompt", "is_enabled"}

update_scheduled_task_fields(task_id, fields) ==
    /\ mgmt_calls < MaxMgmtCalls
    /\ LET updates == DOMAIN fields \cap AllowedFields IN
         scheduled_tasks' =
            [i \in DOMAIN scheduled_tasks |->
                IF scheduled_tasks[i].task_id = task_id
                THEN [f \in DOMAIN scheduled_tasks[i] |->
                        IF f \in updates THEN fields[f] ELSE scheduled_tasks[i][f]]
                ELSE scheduled_tasks[i]]
    /\ mgmt_calls' = mgmt_calls + 1
    /\ UNCHANGED task_seq
    /\ MgmtFrame

\* delete_scheduled_task: DELETE ... WHERE task_id = $1
delete_scheduled_task(task_id) ==
    /\ mgmt_calls < MaxMgmtCalls
    /\ LET Kept(t) == t.task_id # task_id
       IN scheduled_tasks' = SelectSeq2(scheduled_tasks, Kept, 1)
    /\ mgmt_calls' = mgmt_calls + 1
    /\ UNCHANGED task_seq
    /\ MgmtFrame

\* get_all_tasks_for_agent: every task of the agent, enabled or not
get_all_tasks_for_agent(agent_user_id) ==
    LET Mine(t) == t.agent_user_id = agent_user_id
    IN SelectSeq2(scheduled_tasks, Mine, 1)

\* ---- the tools create_task_tools(agent_upn) returns ----
\* the fields the update tool passes on: those of its arguments that are not None
ToolFieldArgs ==
    {[task_name |-> "renamed"], [task_prompt |-> UnknownKeyPrompt],
     [is_enabled |-> FALSE], [is_enabled |-> TRUE]}

NoToolCall ==
    [agent_upn |-> None, tool |-> None, task_id |-> None, seen |-> {}, ticks |-> <<>>]
TInit ==
    /\ tool_call = NoToolCall
    /\ once_tasks = {}

TaskIdsOf(rows) == {rows[i].task_id : i \in DOMAIN rows}

\* list_my_scheduled_tasks()
list_my_scheduled_tasks(agent_upn) ==
    /\ mgmt_calls < MaxMgmtCalls
    /\ mgmt_calls' = mgmt_calls + 1
    /\ tool_call' = [agent_upn |-> agent_upn, tool |-> "list", task_id |-> None,
                     seen |-> TaskIdsOf(get_all_tasks_for_agent(agent_upn)),
                     ticks |-> <<>>]
    /\ UNCHANGED <<scheduled_tasks, task_seq, once_tasks>>
    /\ MgmtFrame

\* create_scheduled_task(task_name, task_prompt, is_recurrent): the row is
\* inserted with is_enabled=True whatever is_recurrent is; is_recurrent only
\* chooses the text of the reply; ticks is how many ticks each loop had
\* started when "Task created" was reported
tool_create_scheduled_task(agent_upn, task_name, task_prompt, is_recurrent) ==
    /\ create_scheduled_task(agent_upn, task_name, task_prompt)
    /\ tool_call' = [agent_upn |-> agent_upn, tool |-> "create",
                     task_id |-> TaskIds[task_seq + 1], seen |-> {TaskIds[task_seq + 1]},
                     ticks |-> [l \in DOMAIN loop |-> loop[l].ticks]]
    /\ once_tasks' = IF is_recurrent THEN once_tasks
                     ELSE once_tasks \cup {TaskIds[task_seq + 1]}

\* update_scheduled_task(task_id, ...): the reply shows the updated row
tool_update_scheduled_task(agent_upn, task_id, fields) ==
    /\ update_scheduled_task_fields(task_id, fields)
    /\ tool_call' = [agent_upn |-> agent_upn, tool |-> "update", task_id |-> task_id,
                     seen |-> {task_id} \cap TaskIdsOf(scheduled_tasks), ticks |-> <<>>]
    /\ UNCHANGED once_tasks

\* delete_scheduled_task(task_id)
tool_delete_scheduled_task(agent_upn, task_id) ==
    /\ delete_scheduled_task(task_id)
    /\ tool_call' = [agent_upn |-> agent_upn, tool |-> "delete", task_id |-> task_id,
                     seen |-> {}, ticks |-> <<>>]
    /\ UNCHANGED once_tasks

\* registry states: the all-valid one and those with one setting or one
\* identity field missing, or another kind of prompt for the first or the
\* second task of the first agent
Defaults == <<EnvOk, <<"cid", "oid">>, <<"cid", "oid">>, PlainPrompt, PlainPrompt>>
InitConfigs ==
    {c \in EnvConfigs \X IdentityConfigs \X IdentityConfigs \X PromptKinds \X PromptKinds :
        Cardinality({k \in 1..5 : c[k] # Defaults[k]}) <= 1}

SchedInit(nstarts, configs) ==
    /\ running = FALSE
    /\ interval \in 1..MaxInterval
    /\ loop = [l \in 1..nstarts |-> LoopInit]
    /\ stop_called = FALSE
    /\ sessions = {}
    /\ \E c \in configs :
          /\ env = c[1]
          /\ agent_registry = [a \in Agents |->
                IF a = "a1" THEN RegistryRow(a, c[2]) ELSE RegistryRow(a, c[3])]
          /\ scheduled_tasks =
                <<TaskRow("t1", "a1", c[4]), TaskRow("t2", "a1", c[5]),
                  [TaskRow("t3", "a2", PlainPrompt) EXCEPT
                      !.last_run_at = PrevRun, !.last_status = "error",
                      !.last_result = [origin |-> "previous", len |-> ShortLen]]>>
    /\ tool_executions = <<>>

\* one start() call, as _main does
Init == SchedInit(1, InitConfigs) /\ QInit /\ KInit /\ GInit /\ MInit /\ RInit /\ TInit /\ CInit

Next ==
    /\ UNCHANGED <<qvars, kvars, gvars, mvars, rvars, tvars, cvars>>
    /\ \/ \E l \in DOMAIN loop : start(l)
       \/ stop
       \/ \E l \in DOMAIN loop : TickStep(l)
       \/ \E l \in DOMAIN loop : AgentStep(l)
    /\ \A l \in DOMAIN loop : loop'[l].ticks <= MaxTicks

Spec == Init /\ [][Next]_vars

\* several start() and stop() calls on one scheduler; the tenant id is not
\* configured, so every eligible agent is skipped
LifecycleInit ==
    /\ SchedInit(MaxStarts, {<<[EnvOk EXCEPT !.tenant_id = ""], <<"cid", "oid">>,
                               <<"cid", "oid">>, PlainPrompt, PlainPrompt>>})
    /\ QInit /\ KInit /\ GInit /\ MInit /\ RInit /\ TInit /\ CInit

LifecycleNext ==
    /\ UNCHANGED <<qvars, kvars, gvars, mvars, rvars, tvars, cvars>>
    /\ \/ \E l \in DOMAIN loop : start(l)
       \/ stop
       \/ \E l \in DOMAIN loop : TickStep(l)
    /\ \A l \in DOMAIN loop : loop'[l].ticks <= MaxLifecycleTicks

LifecycleSpec == LifecycleInit /\ [][LifecycleNext]_vars

\* start() and stop() calls, and the task of a start() cancelled from outside
CancelNext ==
    /\ UNCHANGED <<qvars, kvars, gvars, mvars, rvars, tvars, cvars>>
    /\ \/ \E l \in DOMAIN loop : start(l)
       \/ stop
       \/ \E l \in DOMAIN loop : TickStep(l)
       \/ \E l \in DOMAIN loop : cancel(l)
    /\ \A l \in DOMAIN loop : loop'[l].ticks <= MaxLifecycleTicks

CancelSpec == LifecycleInit /\ [][CancelNext]_vars

\* the steps that are bound to happen: the event loop resumes a coroutine
\* whose sleep, store call or token request has completed.  Session
\* initialisation and agent.run are awaited with no timeout (scheduler.py
\* lines 217 and 271) and are left out: such a call may never return.
BoundToReturn ==
    /\ UNCHANGED <<qvars, kvars, gvars, mvars, rvars, tvars, cvars>>
    /\ \/ \E l \in DOMAIN loop : start(l)
       \/ \E l \in DOMAIN loop : TickStep(l)
       \/ \E l \in DOMAIN loop :
             \/ \E resp \in TokenResponses : get_t1(l, resp)
             \/ \E resp \in TokenResponses : get_t2(l, resp)
             \/ \E resp \in TokenResponses : get_mcp_token(l, resp)
             \/ \E ok \in BOOLEAN : get_scheduled_tasks_returns(l, ok)
             \/ \E ok \in BOOLEAN : update_returns(l, ok)
             \/ \E ok \in BOOLEAN : log_returns(l, ok)
             \/ cleanup_returns(l)
    /\ \A l \in DOMAIN loop : loop'[l].ticks <= MaxTicks

\* one start() call on a registry with complete credentials
HangInit == SchedInit(1, {Defaults}) /\ QInit /\ KInit /\ GInit /\ MInit /\ RInit /\ TInit /\ CInit
HangSpec == HangInit /\ [][Next]_vars /\ WF_vars(BoundToReturn)

QueueInit == QInit /\ SchedInit(1, {Defaults}) /\ interval = 1 /\ KInit /\ GInit /\ MInit /\ RInit /\ TInit /\ CInit
QueueSpec == QueueInit /\ [][QNext]_vars

\* the key-value store alone
StateSpec == QueueInit /\ [][KNext]_vars

\* concurrent callers of get_storage
StorageSpec == QueueInit /\ [][GNext]_vars

\* a tick with task management calls interleaved.  Only the second agent has
\* an enabled task at the start
ManageInit ==
    /\ running = FALSE
    /\ interval = 1
    /\ loop = [l \in 1..1 |-> LoopInit]
    /\ stop_called = FALSE
    /\ sessions = {}
    /\ env = EnvOk
    /\ agent_registry = [a \in Agents |-> RegistryRow(a, <<"cid", "oid">>)]
    /\ scheduled_tasks =
          <<[TaskRow("t1", "a1", PlainPrompt) EXCEPT !.is_enabled = FALSE],
            [TaskRow("t2", "a2", PlainPrompt) EXCEPT
                !.last_run_at = PrevRun, !.last_status = "error",
                !.last_result = [origin |-> "previous", len |-> ShortLen]]>>
    /\ tool_executions = <<>>
    /\ QInit /\ KInit /\ GInit /\ MInit /\ RInit /\ TInit /\ CInit

ManageNext ==
    /\ UNCHANGED <<qvars, kvars, gvars, rvars, tvars, cvars>>
    /\ \/ /\ UNCHANGED mvars
          /\ \/ \E l \in DOMAIN loop : start(l)
             \/ stop
             \/ \E l \in DOMAIN loop : TickStep(l)
             \/ \E l \in DOMAIN loop : AgentStep(l)
       \/ \E a \in Agents, name \in TaskNameArgs, prompt \in {PlainPrompt, MalformedPrompt} :
              create_scheduled_task(a, name, prompt)
       \/ \E id \in TaskIdArgs, fields \in FieldArgs : update_scheduled_task_fields(id, fields)
       \/ \E id \in TaskIdArgs : delete_scheduled_task(id)
    /\ \A l \in DOMAIN loop : loop'[l].ticks <= MaxTicks

ManageSpec == ManageInit /\ [][ManageNext]_vars

\* one start() call on registries in which an agent may not have completed
\* its onboarding and any task may be disabled
EligibilityInit ==
    /\ running = FALSE
    /\ interval = 1
    /\ loop = [l \in 1..1 |-> LoopInit]
    /\ stop_called = FALSE
    /\ sessions = {}
    /\ env = EnvOk
    /\ \E flag \in [Agents -> BOOLEAN] :
          agent_registry = [a \in Agents |->
              [RegistryRow(a, <<"cid", "oid">>) EXCEPT
                  !.is_instructions_complete = flag[a]]]
    /\ \E enabled \in [1..3 -> BOOLEAN] :
          scheduled_tasks =
              <<[TaskRow("t1", "a1", PlainPrompt) EXCEPT !.is_enabled = enabled[1]],
                [TaskRow("t2", "a1", PlainPrompt) EXCEPT !.is_enabled = enabled[2]],
                [TaskRow("t3", "a2", PlainPrompt) EXCEPT !.is_enabled = enabled[3]]>>
    /\ tool_executions = <<>>
    /\ QInit /\ KInit /\ GInit /\ MInit /\ RInit /\ TInit /\ CInit

EligibilitySpec == EligibilityInit /\ [][Next]_vars

\* calls of validate, one per combination of empty and non-empty fields
ValidateInit ==
    /\ running = FALSE
    /\ interval = 1
    /\ loop = [l \in 1..1 |-> LoopInit]
    /\ stop_called = FALSE
    /\ sessions = {}
    /\ env \in [client_id : {"", "bp"}, client_secret : {"", "secret"},
                tenant_id : {"", "tenant"}]
    /\ agent_registry = [a \in Agents |-> RegistryRow(a, <<"cid", "oid">>)]
    /\ scheduled_tasks = <<>>
    /\ tool_executions = <<>>
    /\ QInit /\ KInit /\ GInit /\ MInit /\ RInit /\ TInit
    /\ validate_row \in [agent_user_id : {"", "a1"},
                         agent_identity_client_id : {"", "cid"},
                         agent_user_object_id : {"", "oid"}]
    /\ validate_out = NoValidate
    /\ contact = [f \in ContactFlows |-> NoContact]

ValidateNext ==
    /\ UNCHANGED <<svars, qvars, kvars, gvars, mvars, rvars, tvars>>
    /\ validate_call

ValidateSpec == ValidateInit /\ [][ValidateNext]_vars

\* first contacts of the agents and the manager's updates, the registry empty
RegistryInit ==
    /\ running = FALSE
    /\ interval = 1
    /\ loop = [l \in 1..1 |-> LoopInit]
    /\ stop_called = FALSE
    /\ sessions = {}
    /\ env = EnvOk
    /\ agent_registry = [a \in {} |-> NoAgent]
    /\ scheduled_tasks = <<>>
    /\ tool_executions = <<>>
    /\ QInit /\ KInit /\ GInit /\ MInit /\ RInit /\ TInit /\ CInit

RegistryNext ==
    /\ UNCHANGED <<running, interval, loop, stop_called, sessions, env,
                   scheduled_tasks, tool_executions>>
    /\ UNCHANGED <<qvars, kvars, gvars, mvars, rvars, tvars>>
    /\ \/ \E f \in ContactFlows, a \in Agents : init_gate_via_db(f, a)
       \/ \E f \in ContactFlows : get_agent_returns(f)
       \/ \E f \in ContactFlows : manager_email_returns(f)
       \/ \E f \in ContactFlows : manager_name_returns(f)
       \/ \E f \in ContactFlows : create_agent_returns(f)
       \/ \E a \in Agents :
             \E fields \in {[instructions |-> "text", is_instructions_complete |-> TRUE],
                             [instructions |-> "text"],
                             [is_instructions_complete |-> TRUE]} :
                 update_agent(a, fields)

RegistrySpec == RegistryInit /\ [][RegistryNext]_vars

\* the task-management tools of the two agents, the scheduler not started
ToolNext ==
    /\ UNCHANGED <<qvars, kvars, gvars, rvars, cvars>>
    /\ \E a \in Agents :
          \/ list_my_scheduled_tasks(a)
          \/ \E name \in TaskNameArgs, prompt \in {PlainPrompt}, rec \in BOOLEAN :
                tool_create_scheduled_task(a, name, prompt, rec)
          \/ \E id \in TaskIdArgs, fields \in ToolFieldArgs :
                tool_update_scheduled_task(a, id, fields)
          \/ \E id \in TaskIdArgs : tool_delete_scheduled_task(a, id)

ToolSpec == ManageInit /\ [][ToolNext]_vars

\* ticks of one start() call on a store that is empty at first, with tasks
\* created through the create tool in between.  The second agent has not
\* completed its onboarding
RepeatInit ==
    /\ running = FALSE
    /\ interval = 1
    /\ loop = [l \in 1..1 |-> LoopInit]
    /\ stop_called = FALSE
    /\ sessions = {}
    /\ env = EnvOk
    /\ agent_registry = [a \in Agents |->
          [RegistryRow(a, <<"cid", "oid">>) EXCEPT
              !.is_instructions_complete = (a = "a1")]]
    /\ scheduled_tasks = <<>>
    /\ tool_executions = <<>>
    /\ QInit /\ KInit /\ GInit /\ MInit /\ RInit /\ TInit /\ CInit

RepeatNext ==
    /\ UNCHANGED <<qvars, kvars, gvars, rvars, cvars>>
    /\ \/ /\ UNCHANGED <<mvars, tvars>>
          /\ \/ \E l \in DOMAIN loop : start(l)
             \/ \E l \in DOMAIN loop : TickStep(l)
             \/ \E l \in DOMAIN loop : AgentStep(l)
       \/ \E a \in Agents, name \in TaskNameArgs, rec \in BOOLEAN :
              tool_create_scheduled_task(a, name, PlainPrompt, rec)
    /\ \A l \in DOMAIN loop : loop'[l].ticks <= MaxLifecycleTicks

RepeatSpec == RepeatInit /\ [][RepeatNext]_vars

\* calls of _render_task_prompt, one per template
RenderInit ==
    /\ SchedInit(1, {Defaults}) /\ interval = 1
    /\ QInit /\ KInit /\ GInit /\ MInit /\ TInit /\ CInit
    /\ render_in \in Templates
    /\ render_out = NoRender

RenderNext ==
    /\ UNCHANGED <<svars, qvars, kvars, gvars, mvars, tvars, cvars>>
    /\ render("m", "a1")

RenderSpec == RenderInit /\ [][RenderNext]_vars

(***************************************************************************)
(* Properties                                                              *)
(***************************************************************************)
Outcome(l, i) == loop[l].outcome[i]
AgentIdx(l) == DOMAIN loop[l].agents

\* C1: in every tick, an exception raised while processing an eligible agent
\* (token exchange, session initialisation, task execution) never prevents a
\* later agent of the eligibility query from being processed in that tick:
\* the agent after a failed one has been taken up, and when the tick is over
\* _process_agent has been called for every agent of the query.
C1_AgentIsolation ==
    \A l \in DOMAIN loop :
        /\ \A i \in AgentIdx(l) :
              (Outcome(l, i) = "failed" /\ i < Len(loop[l].agents))
                  => Outcome(l, i + 1) # "none"
        /\ (loop[l].agents # <<>> /\ loop[l].tick_result # "running")
              => \A i \in AgentIdx(l) : Outcome(l, i) # "none"

C1_Witness ==
    \E l \in DOMAIN loop :
        /\ Len(loop[l].agents) = 2
        /\ Outcome(l, 1) = "failed"
        /\ Outcome(l, 2) = "done"

\* C2: two concurrent dequeue_tasks calls never return the same task_queue
\* row to both callers (and never hold the same row locked), under every
\* interleaving of their snapshot, lock and update steps.
C2_NoDoubleClaim ==
    \A c1 \in Consumers, c2 \in Consumers :
        c1 # c2 =>
            /\ returned[c1] \cap returned[c2] = {}
            /\ Range(dq[c1].locked) \cap Range(dq[c2].locked) = {}

\* two calls in flight for the same target whose snapshots share a row; one
\* holds it and the other has passed over it
C2_Witness ==
    \E c1 \in Consumers, c2 \in Consumers :
        /\ c1 # c2
        /\ dq[c1].pc = "scan" /\ dq[c2].pc = "scan"
        /\ dq[c1].target = dq[c2].target
        /\ \E k \in DOMAIN dq[c2].snap :
              /\ dq[c2].snap[k] \in Range(dq[c1].locked)
              /\ dq[c2].pos > k
              /\ dq[c2].locked # <<>>

\* C3: in the token chain of one agent, step k is requested only after step
\* k-1 returned success; a non-success response raises at once: no later step
\* is requested, no resource token is returned, the agent's processing fails.
C3_TokenShortCircuit ==
    \A l \in DOMAIN loop : \A i \in AgentIdx(l) :
        LET t == loop[l].tok[i]
            r == loop[l].tok_req[i]
        IN /\ r \in {Len(t), Len(t) + 1} /\ r <= 3
           /\ \A k \in 2..r : t[k - 1].status = 200
           /\ (\E k \in DOMAIN t : t[k].status # 200)
                 => /\ r = Len(t)
                    /\ loop[l].tokens[i] = NoToken
                    /\ Outcome(l, i) = "failed"
           /\ loop[l].tokens[i] # NoToken
                 => Len(t) = 3 /\ \A k \in 1..3 : t[k].status = 200

C3_Witness ==
    \E l \in DOMAIN loop : \E i \in AgentIdx(l) :
        /\ Len(loop[l].tok[i]) = 2
        /\ loop[l].tok[i][1].status = 200
        /\ loop[l].tok[i][2].status = 400

\* C4: the status of every task_queue row only moves forward along
\* pending -> in_progress -> {completed | failed}.
ForwardTransitions ==
    {<<"pending", "in_progress">>, <<"in_progress", "completed">>,
     <<"in_progress", "failed">>}
C4_StatusForwardOnly ==
    [][\A i \in DOMAIN task_queue :
          task_queue'[i].status # task_queue[i].status
              => <<task_queue[i].status, task_queue'[i].status>> \in ForwardTransitions]_vars

\* C5: a task_queue row is completed exactly once: once a complete_task call
\* has set its status and result (result is then no longer NULL), no later
\* call changes its status or result.
C5_CompletedOnce ==
    [][\A i \in DOMAIN task_queue :
          task_queue[i].result # None
              => /\ task_queue'[i].status = task_queue[i].status
                 /\ task_queue'[i].result = task_queue[i].result]_vars

\* no session of the agent is open, no audit row of it was appended and no
\* last-run field of its tasks was written by a tick of this scheduler
AgentUntouched(a) ==
    /\ \A x \in sessions : x.agent # a
    /\ \A k \in DOMAIN tool_executions : tool_executions[k].agent_id # a
    /\ \A k \in DOMAIN scheduled_tasks :
          scheduled_tasks[k].agent_user_id = a => scheduled_tasks[k].last_run_at.loop = 0
\* C6: no token request is ever issued for an agent whose credentials have
\* missing fields; the scheduler skips it (no exception, no session, no task
\* run) and goes on with the next agent.
C6_NoTokenOnMissingCreds ==
    \A l \in DOMAIN loop : \A i \in AgentIdx(l) :
        validate(from_agent_row(loop[l].agents[i])) # {}
            => /\ Outcome(l, i) \in {"none", "skipped"}
               /\ loop[l].tok_req[i] = 0
               /\ loop[l].tokens[i] = NoToken
               /\ AgentUntouched(loop[l].agents[i].agent_user_id)
               /\ (Outcome(l, i) = "skipped" /\ i < Len(loop[l].agents))
                     => Outcome(l, i + 1) # "none"

C6_Witness ==
    \E l \in DOMAIN loop :
        /\ Len(loop[l].agents) = 2
        /\ validate(from_agent_row(loop[l].agents[1])) # {}
        /\ Outcome(l, 1) = "skipped"
        /\ Outcome(l, 2) = "done"

\* C7: if stop() is called while the loop is in its interval sleep, the loop
\* starts no further tick and start() returns when the sleep slice in
\* progress ends.
C7_StopWithinOneSlice ==
    \A l \in DOMAIN loop :
        loop[l].stopped_in_sleep
            => \/ loop[l].pc = "returned"
               \/ loop[l].pc = "await_sleep" /\ loop[l].slices_after_stop = 0

\* C8: an exception escaping a whole tick never ends the loop: the loop goes
\* to the interval sleep and then runs the next tick; the loop exits only
\* after stop() has cleared the running flag.
C8_TickFailureContained ==
    /\ [](\A l \in DOMAIN loop :
            /\ loop[l].pc # "crashed"
            /\ loop[l].tick_result = "failed" => loop[l].pc \in {"await_sleep", "returned"}
            /\ (loop[l].pc = "returned" /\ ~loop[l].noop) => stop_called)
    /\ [][\A l \in DOMAIN loop :
            (/\ loop[l].tick_result = "failed"
             /\ loop[l].pc = "await_sleep"
             /\ loop'[l].pc # "await_sleep")
                => \/ running /\ loop'[l].pc = "await_get_storage"
                              /\ loop'[l].ticks = loop[l].ticks + 1
                   \/ ~running /\ stop_called /\ loop'[l].pc = "returned"]_vars

\* a tick failed, the loop slept, and the next tick is running
C8_Witness ==
    \E l \in DOMAIN loop :
        /\ loop[l].prev_result = "failed"
        /\ loop[l].ticks = 2
        /\ loop[l].pc = "await_query"

\* C9: ticks of a scheduler never overlap.
InTick(l) == loop[l].tick_result = "running"
C9_TicksNeverOverlap ==
    \A l1 \in DOMAIN loop, l2 \in DOMAIN loop : (InTick(l1) /\ InTick(l2)) => l1 = l2

\* C10: when processing of an agent ends, normally or through an exception,
\* its session has been closed before the next agent is taken up: every open
\* session belongs to the agent its loop is processing, and at most one
\* session is open.
SessionPcs == {"await_run", "await_update", "await_log", "await_cleanup"}
C10_SessionClosedPerAgent ==
    /\ Cardinality(sessions) <= 1
    /\ \A x \in sessions :
          LET s == loop[x.loop]
          IN /\ s.ticks = x.tick
             /\ s.pc \in SessionPcs
             /\ s.idx \in DOMAIN s.agents
             /\ s.agents[s.idx].agent_user_id = x.agent

AgentOf(l, i) == loop[l].agents[i].agent_user_id
TaskPcs == {"await_run", "await_update", "await_log"}
\* the scheduled_tasks rows with a task_id
RowsOf(task_id) == {k \in DOMAIN scheduled_tasks : scheduled_tasks[k].task_id = task_id}
\* the audit rows appended for an agent's task in tick t of loop l
AuditRows(a, task_name, l, t) ==
    {k \in DOMAIN tool_executions :
        /\ tool_executions[k].agent_id = a
        /\ tool_executions[k].tool_name = <<"cron:", task_name>>
        /\ tool_executions[k].created_at = [loop |-> l, tick |-> t]}
\* in the current tick of loop l no session of the agent was opened, no audit
\* row of it was appended and no last-run field of its tasks was written
UntouchedInTick(l, a) ==
    LET at == [loop |-> l, tick |-> loop[l].ticks] IN
      /\ \A x \in sessions : ~(x.agent = a /\ x.loop = l /\ x.tick = loop[l].ticks)
      /\ \A k \in DOMAIN tool_executions :
            ~(tool_executions[k].agent_id = a /\ tool_executions[k].created_at = at)
      /\ \A k \in DOMAIN scheduled_tasks :
            scheduled_tasks[k].agent_user_id = a => scheduled_tasks[k].last_run_at # at

\* C11: a session opened for agent A is initialised only with the resource
\* token A's own token chain produced in the current tick, and only A's tasks
\* are run on it: the token of every open session was issued to the session's
\* agent in the session's tick, the tasks a loop runs while a session is open
\* are owned by the agent the session was opened for, and every audit row of
\* a task names the task's owner.
C11_SessionTokenIsolation ==
    /\ \A x \in sessions :
          x.token = [agent |-> x.agent, loop |-> x.loop, tick |-> x.tick]
    /\ \A l \in DOMAIN loop :
          loop[l].pc \in SessionPcs
              => /\ Session(l) \in sessions
                 /\ \A k \in DOMAIN loop[l].tasks :
                       loop[l].tasks[k].agent_user_id = Session(l).agent
    /\ \A k \in DOMAIN tool_executions :
          \A j \in DOMAIN scheduled_tasks :
              tool_executions[k].tool_name = <<"cron:", scheduled_tasks[j].task_name>>
                  => tool_executions[k].agent_id = scheduled_tasks[j].agent_user_id

\* the second agent's task runs on its session after the first agent obtained
\* a token of its own in the same tick
C11_Witness ==
    \E l \in DOMAIN loop :
        /\ loop[l].pc = "await_run"
        /\ loop[l].idx = 2
        /\ loop[l].tokens[1] # NoToken
        /\ loop[l].tokens[2] # NoToken

\* C13: if a step of the token exchange returns an error status for agent A
\* in a tick, then in that tick no session is opened for A, none of A's tasks
\* is executed, no last-run field of A's tasks is written, no audit row is
\* appended for A, and the tick goes on to the next agent without raising.
C13_TokenErrorSkipsAgent ==
    \A l \in DOMAIN loop : \A i \in AgentIdx(l) :
        (\E k \in DOMAIN loop[l].tok[i] : loop[l].tok[i][k].status # 200)
            => /\ UntouchedInTick(l, AgentOf(l, i))
               /\ loop[l].ran[i] = <<>>
               /\ Outcome(l, i) = "failed"
               /\ i < Len(loop[l].agents) => Outcome(l, i + 1) # "none"
               /\ loop[l].pc # "crashed"
               /\ loop[l].tick_result \in {"running", "ok"}

\* step 2 failed for the first agent and the second agent was processed
C13_Witness ==
    \E l \in DOMAIN loop :
        /\ Len(loop[l].agents) = 2
        /\ Len(loop[l].tok[1]) = 2
        /\ loop[l].tok[1][2].status # 200
        /\ Outcome(l, 2) = "done"
        /\ loop[l].tick_result = "ok"

\* C14: if the backend raises while running task k of an agent, task k is
\* recorded with last_status 'error' and the truncated exception text as
\* last_result (the write is issued with these values, and the row holds them
\* once the write has returned), the exception does not leave the task step,
\* and every later task of the agent is still executed in the same tick.
C14_RunErrorRecorded ==
    \A l \in DOMAIN loop : \A i \in DOMAIN loop[l].ran : \A k \in DOMAIN loop[l].ran[i] :
        LET s == loop[l]
            r == s.ran[i][k]
            text == [origin |-> "exception", len |-> r.len]
        IN r.run = "error"
             => /\ (s.idx = i /\ s.tidx = k /\ s.pc = "await_update")
                      => s.status = "error" /\ s.response = text
                /\ r.update = "ok"
                      => \A j \in RowsOf(r.task_id) :
                            /\ scheduled_tasks[j].last_status = "error"
                            /\ scheduled_tasks[j].last_result = Truncate(text, ResultLimit)
                /\ (s.idx = i /\ s.tidx = k) => s.pc \in TaskPcs
                /\ (s.idx # i \/ s.pc \notin SessionPcs)
                      => \A k2 \in DOMAIN s.ran[i] :
                            k2 > k => s.ran[i][k2].run \in {"success", "error"}

\* C15: for every task whose run a tick persisted, last_run_at is set,
\* last_status is success or error, and the stored last_result has at most
\* 2000 characters, whatever the length of the response or exception text.
C15_PersistedRunShape ==
    \A k \in DOMAIN scheduled_tasks :
        scheduled_tasks[k].last_status # None
            => /\ scheduled_tasks[k].last_run_at # NeverRun
               /\ scheduled_tasks[k].last_status \in {"success", "error"}
               /\ scheduled_tasks[k].last_result.len <= ResultLimit

\* a response longer than the limit and an exception text longer than the
\* limit were persisted by the tick
C15_Witness ==
    \E j, k \in DOMAIN scheduled_tasks :
        /\ scheduled_tasks[j].last_run_at.loop # 0
        /\ scheduled_tasks[j].last_result = [origin |-> "backend", len |-> ResultLimit]
        /\ scheduled_tasks[k].last_run_at.loop # 0
        /\ scheduled_tasks[k].last_result = [origin |-> "exception", len |-> ResultLimit]

\* C16: with valid credentials and three successful token steps, when the
\* backend run of an enabled task returns text r, the last-run write is issued
\* with status 'success' and r cut to 2000 characters and, once it has
\* returned, the row holds exactly that in place of the previous value; the
\* audit append that follows adds exactly one row with tool name
\* 'cron:' + task_name for the execution.
C16_SuccessRecorded ==
    \A l \in DOMAIN loop : \A i \in DOMAIN loop[l].ran : \A k \in DOMAIN loop[l].ran[i] :
        LET s == loop[l]
            r == s.ran[i][k]
            text == [origin |-> "backend", len |-> r.len]
            rows == AuditRows(AgentOf(l, i), r.task_name, l, s.ticks)
        IN r.run = "success"
             => /\ validate(from_agent_row(s.agents[i])) = {}
                /\ Len(s.tok[i]) = 3 /\ \A n \in 1..3 : s.tok[i][n].status = 200
                /\ (s.idx = i /\ s.tidx = k /\ s.pc = "await_update")
                      => s.status = "success" /\ s.response = text
                /\ r.update = "ok"
                      => \A j \in RowsOf(r.task_id) :
                            /\ scheduled_tasks[j].last_run_at = [loop |-> l, tick |-> s.ticks]
                            /\ scheduled_tasks[j].last_status = "success"
                            /\ scheduled_tasks[j].last_result = Truncate(text, ResultLimit)
                /\ Cardinality(rows) = IF r.log = "ok" THEN 1 ELSE 0
                /\ \A a \in rows :
                      /\ tool_executions[a].status = "success"
                      /\ tool_executions[a].tool_output = Truncate(text, LogLimit)

\* the task that carried an earlier error result now holds the success
\* result, and its audit row was appended
C16_Witness ==
    \E l \in DOMAIN loop : \E j \in DOMAIN scheduled_tasks :
        /\ scheduled_tasks[j].task_id = "t3"
        /\ scheduled_tasks[j].last_run_at = [loop |-> l, tick |-> 1]
        /\ scheduled_tasks[j].last_status = "success"
        /\ scheduled_tasks[j].last_result = [origin |-> "backend", len |-> ResultLimit]
        /\ Cardinality(AuditRows("a2", "t3", l, 1)) = 1
        /\ loop[l].tick_result = "ok"

\* C12: if an external call made while processing agent A never returns,
\* every other eligible agent of that tick is still eventually processed in
\* that tick: every agent of the tick's listing is eventually taken up.
C12_HangDoesNotStarve ==
    \A i \in 1..Cardinality(Agents) :
        (i \in AgentIdx(1) /\ Outcome(1, i) = "none")
            ~> (i \in AgentIdx(1) /\ Outcome(1, i) # "none")

\* C17: get_state(key) returns None whenever the entry's stored expiry is
\* not later than the current time, although the row is still present; an
\* entry with no expiry or with an expiry in the future returns its stored
\* value (the stored JSON text, decoded).
C17_LazyExpiry ==
    state_read.key # None =>
        LET row == state_read.row IN
          /\ (row.present /\ row.expires_at # NoExpiry /\ row.expires_at <= state_read.at)
                => state_read.result = None
          /\ (row.present /\ (row.expires_at = NoExpiry \/ row.expires_at > state_read.at))
                => state_read.result = json_loads(row.value)
          /\ ~row.present => state_read.result = None

\* a read at the expiry instant returned None while the row, holding a
\* value, is still in the table
C17_Witness ==
    /\ state_read.key # None
    /\ state_read.row.present
    /\ state_read.row.value # "null"
    /\ state_read.row.expires_at = state_read.at
    /\ state_read.result = None
    /\ shared_state[state_read.key] = state_read.row

\* C18: under every interleaving of concurrent get_storage() callers, one
\* caller constructs the PostgresStorage instance and creates the pool (the
\* pool is created at most once), and every caller receives that instance.
C18_SingletonOnce ==
    /\ Len(constructions) <= 1
    /\ Len(pool_calls) <= 1
    /\ pool_calls = constructions
    /\ \A c \in StorageCallers :
          /\ gs[c].pc \in {"returned", "raised", "await_lock", "await_create_pool"}
                => Len(constructions) = 1
          /\ gs[c].pc = "returned" => gs[c].got.id = 1 /\ instance.id = 1

\* three callers hold the instance: one created the pool, another received
\* the instance while the pool was still being created
C18_Witness ==
    /\ Len(lock.waiters) = 0
    /\ \A c \in StorageCallers : gs[c].pc = "returned" /\ gs[c].calls = 1
    /\ \E c \in StorageCallers : gs[c].got.pool = "created"
    /\ constructions # <<>>
    /\ \E c \in StorageCallers : c # constructions[1] /\ gs[c].got.pool = "none"

\* the last-run fields of a row
LastRun(row) == <<row.last_run_at, row.last_status, row.last_result>>

\* C19: the last-run timestamp, status and result of a scheduled task are
\* written only by the tick step that executed that task; the management
\* operations (create, update of name, prompt or enabled flag, delete) leave
\* the last-run fields of every existing task unchanged, and a created task
\* has none.
C19_LastRunWriters ==
    [][\A j2 \in DOMAIN scheduled_tasks' :
          LET new == scheduled_tasks'[j2]
              olds == {j \in DOMAIN scheduled_tasks :
                          scheduled_tasks[j].task_id = new.task_id}
          IN /\ olds = {} => LastRun(new) = <<NeverRun, None, NoText>>
             /\ \A j \in olds :
                   LastRun(new) # LastRun(scheduled_tasks[j])
                      => /\ mgmt_calls' = mgmt_calls
                         /\ \E l \in DOMAIN loop :
                               /\ loop[l].pc = "await_update"
                               /\ loop'[l].pc = "await_log"
                               /\ loop[l].tasks[loop[l].tidx].task_id = new.task_id
                               /\ loop[l].ran[loop[l].idx][loop[l].tidx].run # "none"
                               /\ new.last_run_at = [loop |-> l, tick |-> loop[l].ticks]]_vars

\* a task the tick has executed and written was renamed by its owner, and
\* another task was created, with the written fields still in place
C19_Witness ==
    /\ mgmt_calls = 2
    /\ task_seq = 3
    /\ \E j \in DOMAIN scheduled_tasks :
          /\ scheduled_tasks[j].task_id = "t2"
          /\ scheduled_tasks[j].task_name = "renamed"
          /\ scheduled_tasks[j].last_run_at.loop # 0
          /\ scheduled_tasks[j].last_status = "success"

\* C20: the scheduler has two states, Stopped --start()--> Running
\* --stop()--> Stopped.  start() on a Running scheduler returns at once, with
\* no second loop and no tick, and leaves it Running; stop() on a Stopped
\* scheduler leaves it Stopped and has no other effect.
StartStep(l) == loop[l].pc = "init" /\ loop'[l].pc # "init"
StopStep ==
    \/ stop_called' # stop_called
    \/ \E l \in DOMAIN loop : loop'[l].stopped_in_sleep # loop[l].stopped_in_sleep
    \/ \E l \in DOMAIN loop : loop'[l].stopped_in_tick # loop[l].stopped_in_tick
    \/ running /\ ~running'
\* the program state apart from the running flag: positions and locals of
\* the loops, sessions and stored rows
C20_TwoStateMachine ==
    [][/\ \A l \in DOMAIN loop :
             StartStep(l) =>
                /\ running'
                /\ \A l2 \in DOMAIN loop \ {l} : loop'[l2] = loop[l2]
                /\ UNCHANGED <<sessions, scheduled_tasks, tool_executions>>
                /\ IF running
                   THEN loop'[l] = [loop[l] EXCEPT !.pc = "returned", !.noop = TRUE]
                   ELSE loop'[l].pc = "await_get_storage" /\ loop'[l].ticks = 1
       /\ StopStep =>
             /\ ~running'
             /\ \A l \in DOMAIN loop :
                   /\ loop'[l].pc = loop[l].pc
                   /\ loop'[l].ticks = loop[l].ticks
                   /\ loop'[l].tick_result = loop[l].tick_result
             /\ UNCHANGED <<sessions, scheduled_tasks, tool_executions>>
       /\ running' # running => (StopStep \/ \E l \in DOMAIN loop : StartStep(l))]_vars

\* a second start() returned at once while the first loop is in its tick,
\* and a stop() had been called on the stopped scheduler before
C20_Witness ==
    /\ running
    /\ stop_called
    /\ \E l1, l2 \in DOMAIN loop :
          /\ loop[l1].noop /\ loop[l1].pc = "returned" /\ loop[l1].ticks = 0
          /\ InTick(l2)

\* the agent's processing is over: the loop is at another agent or past the tick
AgentOver(l, i) == loop[l].idx # i \/ loop[l].pc \notin SessionPcs \cup {"await_mcp_init"}

\* C21: if the write of the last-run fields or the append of the audit row
\* raises for a task, the exception stays inside the task step: the remaining
\* tasks of the agent are still run, the agent's processing does not fail,
\* the remaining agents of the tick are processed and the tick does not fail.
C21_PersistenceFailureSwallowed ==
    \A l \in DOMAIN loop : \A i \in DOMAIN loop[l].ran : \A k \in DOMAIN loop[l].ran[i] :
        LET s == loop[l]
            r == s.ran[i][k]
        IN (r.update = "failed" \/ r.log = "failed")
             => /\ s.idx = i => s.tidx > k
                /\ s.pc # "crashed"
                /\ s.tick_result \in {"running", "ok"}
                /\ Outcome(l, i) \in {"running", "done"}
                /\ AgentOver(l, i)
                      => /\ \A k2 \in DOMAIN s.ran[i] :
                               k2 > k => s.ran[i][k2].run \in {"success", "error"}
                         /\ i < Len(s.agents) => Outcome(l, i + 1) # "none"

\* C28: if stop() is called while a tick is in flight, the tick is not
\* aborted, and after it the loop exits without sleeping and without
\* starting another tick.
C28_StopDuringTick ==
    \A l \in DOMAIN loop :
        loop[l].stopped_in_tick # 0
            => /\ loop[l].ticks = loop[l].stopped_in_tick
               /\ loop[l].pc \notin {"await_sleep", "crashed"}
               /\ loop[l].pc = "returned" <=> loop[l].tick_result # "running"

\* the template with each recognised field replaced by its value
Substituted(task_prompt, manager_email, agent_upn) ==
    [i \in DOMAIN task_prompt |-> FormatPiece(task_prompt[i], manager_email, agent_upn)]

\* C27: rendering a task prompt never raises: the result is the template with
\* the recognised placeholders substituted, or, when the template names an
\* unknown placeholder, the raw template.
C27_RenderNeverRaises ==
    render_out.called
        => /\ ~render_out.raises
           /\ \/ render_out.text = Substituted(render_in, "m", "a1")
              \/ /\ \E i \in DOMAIN render_in : render_in[i] = "{unknown}"
                 /\ render_out.text = render_in

\* C30: for every TTL t > 0 and every current second, set_state(key, v,
\* ttl_seconds=t) completes the upsert, and the row's expiry instant is
\* now + t.
C30_SetStateWithTtl ==
    [][(state_write' # state_write /\ state_write'.ttl_seconds > 0)
          => /\ ~state_write'.raised
             /\ shared_state'[state_write'.key].present
             /\ shared_state'[state_write'.key].expires_at
                   = clock + state_write'.ttl_seconds]_vars

\* the step in which consumer c's dequeue_tasks statement commits and returns
DequeueReturns(c) == dq[c].pc = "scan" /\ dq'[c].pc = "idle"

\* C29: dequeue_tasks(target, limit=N) returns at most N rows; every returned
\* row was pending with target_agent = target and is in_progress afterwards;
\* every older pending row of the target that was not claimed is locked by
\* another caller; the rows the call changed are exactly the returned rows.
C29_DequeueClaims ==
    [][\A c \in Consumers :
          DequeueReturns(c) =>
            LET got == returned'[c] \ returned[c]
                target == dq[c].target
            IN /\ Cardinality(got) <= dq[c].limit
               /\ \A id \in got :
                     /\ task_queue[id].status = "pending"
                     /\ task_queue[id].target_agent = target
                     /\ task_queue'[id].status = "in_progress"
                     /\ \A j \in 1..(id - 1) :
                           (/\ task_queue[j].target_agent = target
                            /\ task_queue[j].status = "pending"
                            /\ j \notin got) => LockedByOther(c, j)
               /\ Len(task_queue') = Len(task_queue)
               /\ \A i \in DOMAIN task_queue :
                     task_queue'[i] # task_queue[i] <=> i \in got]_vars

\* two consumers have each claimed one of two rows of the same target
C29_Witness ==
    \E c, d \in Consumers :
        /\ c # d
        /\ returned[c] = {2}
        /\ returned[d] = {1}
        /\ Len(task_queue) = 2
        /\ task_queue[1].target_agent = task_queue[2].target_agent
        /\ \A i \in 1..2 : task_queue[i].status = "in_progress"

OwnerOf(task_id) ==
    {scheduled_tasks[i].agent_user_id :
        i \in {j \in DOMAIN scheduled_tasks : scheduled_tasks[j].task_id = task_id}}

\* C25: through the tools created for agent A, no list, create, update or
\* delete call, with any task_id argument, reads, modifies or deletes a
\* scheduled task owned by another agent.
C25_OwnTasksOnly ==
    [][tool_call' # tool_call \/ scheduled_tasks' # scheduled_tasks
          => /\ \A i \in DOMAIN scheduled_tasks :
                   scheduled_tasks[i].agent_user_id # tool_call'.agent_upn
                      => scheduled_tasks[i] \in Range(scheduled_tasks')
             /\ \A id \in tool_call'.seen \cap TaskIdsOf(scheduled_tasks) :
                   OwnerOf(id) = {tool_call'.agent_upn}]_vars

\* C26: a task created with is_recurrent=False runs once and is then
\* disabled: once the tick that executed it first is over, its enabled flag
\* is false, and no later tick executes it.
C26_RunsOnce ==
    \A i \in DOMAIN scheduled_tasks : \A l \in DOMAIN loop :
        LET row == scheduled_tasks[i]
        IN (/\ row.task_id \in once_tasks
            /\ row.last_run_at.loop = l
            /\ \/ loop[l].ticks > row.last_run_at.tick
               \/ loop[l].tick_result # "running")
              => /\ ~row.is_enabled
                 /\ loop[l].ticks > row.last_run_at.tick
                       => \A a \in DOMAIN loop[l].ran : \A k \in DOMAIN loop[l].ran[a] :
                             loop[l].ran[a][k].task_id # row.task_id

\* C24: in each tick, for each agent whose session is opened, one fresh
\* three-step token chain has run in that tick before the session is opened;
\* its resource token is the one the session carries for all of the agent's
\* tasks, and no session carries a token obtained in an earlier tick.
C24_FreshTokenPerTick ==
    /\ \A l \in DOMAIN loop :
          loop[l].pc \in SessionPcs \cup {"await_mcp_init"}
              => LET s == loop[l]
                     i == s.idx
                 IN /\ Len(s.tok[i]) = 3
                    /\ \A k \in 1..3 : s.tok[i][k].status = 200
                    /\ s.tok_req[i] = 3
                    /\ s.tokens[i] = [agent |-> s.agents[i].agent_user_id,
                                      loop |-> l, tick |-> s.ticks]
                    /\ s.pc \in SessionPcs
                          => \E x \in sessions :
                                /\ x.loop = l /\ x.tick = s.ticks
                                /\ x.agent = s.agents[i].agent_user_id
                                /\ x.token = s.tokens[i]
    /\ \A x \in sessions : x.token.tick = x.tick /\ x.token.loop = x.loop

\* in the second tick the agent's second task runs on the session opened in
\* that tick, the first task having run in the first tick too
C24_Witness ==
    \E l \in DOMAIN loop :
        /\ loop[l].ticks = 2
        /\ loop[l].pc = "await_run"
        /\ loop[l].tidx = 2
        /\ \E j \in DOMAIN scheduled_tasks :
              /\ scheduled_tasks[j].task_id = loop[l].tasks[2].task_id
              /\ scheduled_tasks[j].last_run_at = [loop |-> l, tick |-> 1]

\* the agents with the instructions-complete flag and an enabled task
Eligible ==
    {a \in Agents :
        /\ agent_registry[a].is_instructions_complete
        /\ \E j \in DOMAIN scheduled_tasks :
              scheduled_tasks[j].agent_user_id = a /\ scheduled_tasks[j].is_enabled}

\* the eligibility query of the loop's current tick has returned
Queried(l) ==
    \/ loop[l].tick_result \in {"ok", "empty"}
    \/ loop[l].tick_result = "running"
          /\ loop[l].pc \notin {"await_get_storage", "await_query"}

EnabledIdsOf(a) ==
    LET Mine(t) == t.agent_user_id = a /\ t.is_enabled
        rows == SelectSeq(scheduled_tasks, Mine)
    IN [k \in DOMAIN rows |-> rows[k].task_id]

\* the task's step is over: its result was recorded, or the failure of the
\* write or of the audit append was swallowed
StepOver(r) ==
    \/ r.update = "failed"
    \/ r.update = "ok" /\ r.log \in {"ok", "failed"}

\* C23: within a tick the tasks of an agent are exactly its enabled tasks,
\* taken in creation order, one after the other: a task is started only when
\* the step of every earlier task is over.
C23_TasksInCreationOrder ==
    \A l \in DOMAIN loop :
        LET s == loop[l] IN
          /\ s.pc \in SessionPcs
                => /\ [k \in DOMAIN s.tasks |-> s.tasks[k].task_id]
                         = EnabledIdsOf(AgentOf(l, s.idx))
                   /\ [k \in DOMAIN s.ran[s.idx] |-> s.ran[s.idx][k].task_id]
                         = EnabledIdsOf(AgentOf(l, s.idx))
                   /\ \A k \in DOMAIN s.ran[s.idx] :
                         s.ran[s.idx][k].run # "none" => k <= s.tidx
          /\ \A i \in DOMAIN s.ran : \A k \in DOMAIN s.ran[i] :
                s.ran[i][k].run # "none"
                    => \A k0 \in 1..(k - 1) : StepOver(s.ran[i][k0])

\* the second task of an agent is running after the write of the first
\* task's result failed
C23_Witness ==
    \E l \in DOMAIN loop :
        /\ loop[l].pc = "await_run"
        /\ loop[l].tidx = 2
        /\ loop[l].ran[loop[l].idx][1].update = "failed"
        /\ \E j \in DOMAIN scheduled_tasks : ~scheduled_tasks[j].is_enabled

\* C33: a persistence failure never masks the outcome of a task: for every
\* executed task both the last-run write and the audit-row append are
\* attempted; a failed last-run write does not suppress the audit-row append,
\* and a failed append does not suppress the write.
C33_BothWritesAttempted ==
    \A l \in DOMAIN loop : \A i \in DOMAIN loop[l].ran : \A k \in DOMAIN loop[l].ran[i] :
        LET r == loop[l].ran[i][k]
        IN /\ r.update = "failed" => r.log \in {"ok", "failed"}
           /\ r.log = "failed" => r.update \in {"ok", "failed"}

\* C34: every instance a get_storage() call returns has its connection pool
\* created at the time it is returned.
C34_ReturnedInstanceConnected ==
    \A c \in StorageCallers :
        gs[c].pc = "returned" => gs[c].got.pool = "created"

\* C35: a get_storage() call that finds an instance whose pool creation has
\* failed (no pool, and no connect() in progress) attempts the connection
\* again instead of returning the unconnected instance.
C35_ConnectRetried ==
    [][\A c \in StorageCallers :
          (/\ gs'[c].calls = gs[c].calls + 1
           /\ instance # NoInstance
           /\ instance.pool = "none"
           /\ \A d \in StorageCallers : gs[d].pc # "await_create_pool")
             => /\ gs'[c].pc = "await_create_pool"
                /\ Len(pool_calls') = Len(pool_calls) + 1]_vars

\* the start() loops that are between their first tick and their return
ActiveLoops ==
    {l \in DOMAIN loop : loop[l].pc \notin {"init", "returned", "crashed", "cancelled"}}

\* C36: for one scheduler, at most one start() loop is executing at any time,
\* over any sequence of start() and stop() calls.
C36_OneLoop == Cardinality(ActiveLoops) <= 1

\* the agent's session was opened in the current tick: its first task has
\* been taken up
SessionOpened(l, i) ==
    /\ loop[l].ran[i] # <<>>
    /\ loop[l].ran[i][1].run # "none"

\* C38: once an agent's session is open, every task of its list gets one
\* execution attempt and one last-run write attempt, whatever happens with
\* the agent's other tasks.
C38_EveryListedTaskAttempted ==
    \A l \in DOMAIN loop : \A i \in AgentIdx(l) :
        (SessionOpened(l, i) /\ AgentOver(l, i))
            => \A k \in DOMAIN loop[l].ran[i] :
                  /\ loop[l].ran[i][k].run \in {"success", "error"}
                  /\ loop[l].ran[i][k].update \in {"ok", "failed"}

\* the step in which get_scheduled_tasks returns the agent's task list
ListingReturns(l) ==
    loop[l].pc = "await_get_tasks" /\ loop'[l].pc = "await_mcp_init"

\* C39: with management calls interleaved with a tick, the list of tasks the
\* tick takes for an agent holds only rows that are, at that moment, in the
\* store, enabled and owned by the agent, and every task the tick executes
\* for the agent is a task of that list.
C39_ExecutesListedTasksOnly ==
    [][\A l \in DOMAIN loop :
          /\ ListingReturns(l)
                => \A k \in DOMAIN loop'[l].tasks :
                      \E j \in DOMAIN scheduled_tasks :
                          /\ scheduled_tasks[j] = loop'[l].tasks[k]
                          /\ scheduled_tasks[j].is_enabled
                          /\ scheduled_tasks[j].agent_user_id = AgentOf(l, loop[l].idx)
          /\ loop'[l].pc \in TaskPcs
                => LET s == loop'[l]
                   IN /\ s.tidx \in DOMAIN s.tasks
                      /\ s.tasks[s.tidx].is_enabled
                      /\ s.tasks[s.tidx].agent_user_id = s.agents[s.idx].agent_user_id
                      /\ s.ran[s.idx][s.tidx].task_id = s.tasks[s.tidx].task_id]_vars

\* the second agent's new task is being executed alone: its older task was
\* deleted before the tick listed the agent's tasks
C39_Witness ==
    \E l \in DOMAIN loop :
        /\ loop[l].pc = "await_run"
        /\ AgentOf(l, loop[l].idx) = "a2"
        /\ [k \in DOMAIN loop[l].tasks |-> loop[l].tasks[k].task_id] = <<"t3">>
        /\ RowsOf("t2") = {}

\* the fields a set of credentials needs: the three taken from the registry
\* row and the three tenant-wide ones
RequiredFields ==
    {"agent_user_id", "agent_identity_client_id", "agent_user_object_id",
     "blueprint_client_id", "blueprint_client_secret", "tenant_id"}

\* C31: for every combination of empty and non-empty fields, validate()
\* returns exactly the required fields that are empty, the principal name
\* agent_user_id included; it returns the empty list only if all are set.
C31_ValidateExact ==
    validate_out.called
        => validate_out.missing
              = {f \in RequiredFields : from_agent_row(validate_row)[f] = ""}

\* C32: after the create tool reported "Task created" for an agent that
\* passes the init gate (flag set, or instructions text with the flag false),
\* the next tick that starts lists the agent and, its credentials being valid
\* and its token exchange successful, executes the task.
C32_CreatedTaskRunsNextTick ==
    \A l \in DOMAIN loop :
        LET a == tool_call.agent_upn IN
          ( /\ tool_call.tool = "create"
            /\ init_gate_passes(agent_registry[a])
            /\ loop[l].ticks = tool_call.ticks[l] + 1
            /\ Queried(l) )
          => /\ a \in {AgentOf(l, i) : i \in AgentIdx(l)}
             /\ \A i \in AgentIdx(l) :
                   (AgentOf(l, i) = a /\ Outcome(l, i) = "done")
                       => \E k \in DOMAIN loop[l].ran[i] :
                             /\ loop[l].ran[i][k].task_id = tool_call.task_id
                             /\ loop[l].ran[i][k].run \in {"success", "error"}

\* C37: the running flag is true only while a start() loop is active: once
\* the task running start() was cancelled and has exited, the flag is false,
\* so that a later start() runs ticks instead of returning at once.
C37_RunningOnlyWhileActive ==
    /\ running => ActiveLoops # {}
    /\ \A l \in DOMAIN loop :
          loop[l].noop => \E l2 \in DOMAIN loop : l2 # l /\ loop[l2].pc # "init"
                                                   /\ loop[l2].pc # "cancelled"

\* a first-contact flow's create_agent runs in this step
CreateAgentStep(f) ==
    contact[f].pc = "await_create_agent" /\ contact'[f].pc = "done"

\* C40: first-contact registration never overwrites an existing registry row:
\* whatever the interleaving of first-contact flows and a manager's
\* update_agent, a create_agent for a principal that has a row leaves the
\* row's instructions text and instructions-complete flag as they were.
C40_CreateKeepsExistingRow ==
    [][\A f \in ContactFlows :
          (CreateAgentStep(f) /\ contact[f].agent_upn \in DOMAIN agent_registry)
              => LET a == contact[f].agent_upn IN
                   /\ agent_registry'[a].instructions = agent_registry[a].instructions
                   /\ agent_registry'[a].is_instructions_complete
                         = agent_registry[a].is_instructions_complete]_vars

=============================================================================
